---- MODULE Spec2Model ----
(***************************************************************************)
(* Recoil Compensation Engine of Artanis-RCS.                              *)
(*                                                                         *)
(*   - PatternSubdivisionAlgorithm.subdivide   (core/models/weapon.py)     *)
(*   - RecoilService                           (recoil_service.py)         *)
(*   - WeaponDetectionService                  (weapon_detection_service)  *)
(*                                                                         *)
(* Displacements are floats in the program.  They are modelled as exact    *)
(* fixed-point numbers: an integer n stands for n / Scale.                 *)
(***************************************************************************)
EXTENDS Integers, Sequences, FiniteSets, TLC

(***************************************************************************)
(* Bounds of the subdivision inputs.                                       *)
(***************************************************************************)
Scale == 2
MaxRaw == 2
MaxMultiple == 4
MaxLength == 3

\* raw dx values, in units of 1/Scale: -2.5, -1.5, -1, 0, 0.5, 1.5, 10
DxVals == {-5, -3, -2, 0, 1, 3, 10 * Scale}
\* raw dy values, in units of 1/Scale: -1.5, 1, 20
DyVals == {-3, 2, 20 * Scale}
DelayVals == {15}

RecoilData == [dx : DxVals, dy : DyVals, delay : DelayVals]

RawPatterns == UNION {[1..n -> RecoilData] : n \in 0..MaxRaw}

VARIABLES
    subPc,          \* position inside subdivide: "start", "emit", "gap", "done"
    subPattern,     \* argument pattern
    subMultiple,    \* argument multiple
    subLength,      \* argument length
    subI,           \* index i of the outer loop (0-based)
    subResult,      \* result list
    subFloor,       \* the sub-points as appended, before gap distribution
    subSumX, subSumY,                   \* sum_x, sum_y
    subSumXOrig, subSumYOrig,           \* sum_x_original, sum_y_original
    subGapX, subGapY                    \* gap_x, gap_y of the last raw index

subVars == <<subPc, subPattern, subMultiple, subLength, subI, subResult,
             subFloor, subSumX, subSumY, subSumXOrig, subSumYOrig,
             subGapX, subGapY>>

(***************************************************************************)
(* Arithmetic helpers.                                                     *)
(***************************************************************************)
Min(a, b) == IF a < b THEN a ELSE b

Abs(a) == IF a < 0 THEN -a ELSE a

\* pattern[:length] for length >= 0
PrefixWrong(s, n) == s
Prefix(s, n) == SubSeq(s, 1, Min(n, Len(s)))

\* np.floor(v / multiple) for the fixed-point value v; the result is a whole
\* number, returned in units of 1/Scale
FloorDivWrong(v, m) == (IF v >= 0 THEN v \div (Scale * m) ELSE -((-v) \div (Scale * m))) * Scale
FloorDiv(v, m) == (v \div (Scale * m)) * Scale

\* int(round(v)) of Python 3 for the fixed-point value v: nearest integer,
\* ties to the even one.  The result is a plain integer.
Round(v) ==
    LET q == v \div Scale
        r == v % Scale
    IN  IF 2 * r < Scale THEN q
        ELSE IF 2 * r > Scale THEN q + 1
        ELSE IF q % 2 = 0 THEN q ELSE q + 1

RECURSIVE SumDx(_)
SumDx(s) == IF s = <<>> THEN 0 ELSE s[1].dx + SumDx(Tail(s))

RECURSIVE SumDy(_)
SumDy(s) == IF s = <<>> THEN 0 ELSE s[1].dy + SumDy(Tail(s))

\* for k in range(gap): idx = multiple*(i+1) - k - 1;
\*     if 0 <= idx < len(result): result[idx].d += 1
\* The set of (1-based) positions of result that receive +1.
GapTargetsEarlier(res, m, i, gap) ==
    {p \in 1..Len(res) : \E k \in 0..(gap - 1) : p = (m * i) - k}
GapTargetsWrong(res, m, i, gap) ==
    {p \in 1..Len(res) : gap > 0 /\ p = m * (i + 1)}
GapTargets(res, m, i, gap) ==
    {p \in 1..Len(res) : \E k \in 0..(gap - 1) : p = (m * (i + 1)) - k - 1 + 1}

(***************************************************************************)
(* subdivide, one action per block of the function body.                   *)
(***************************************************************************)
SubInit ==
    /\ subPc = "start"
    /\ subPattern \in RawPatterns
    /\ subMultiple \in 1..MaxMultiple
    /\ subLength \in 1..MaxLength
    /\ subI = 0
    /\ subResult = <<>>
    /\ subFloor = <<>>
    /\ subSumX = 0 /\ subSumY = 0
    /\ subSumXOrig = 0 /\ subSumYOrig = 0
    /\ subGapX = 0 /\ subGapY = 0

\* lines 36-37: if not pattern or multiple <= 1: return pattern[:length]
SubReturnVerbatim ==
    /\ subPc = "start"
    /\ (subPattern = <<>> \/ subMultiple <= 1)
    /\ subResult' = Prefix(subPattern, subLength)
    /\ subFloor' = subResult'
    /\ subPc' = "done"
    /\ UNCHANGED <<subPattern, subMultiple, subLength, subI, subSumX, subSumY,
                   subSumXOrig, subSumYOrig, subGapX, subGapY>>

\* lines 40-47: set up the loop over pattern[:length]
SubBegin ==
    /\ subPc = "start"
    /\ ~(subPattern = <<>> \/ subMultiple <= 1)
    /\ subPc' = "emit"
    /\ UNCHANGED <<subPattern, subMultiple, subLength, subI, subResult,
                   subFloor, subSumX, subSumY, subSumXOrig, subSumYOrig,
                   subGapX, subGapY>>

\* lines 50-69: append `multiple` floored sub-points of raw point i and
\* update the sums
SubEmit ==
    /\ subPc = "emit"
    /\ subI < Len(Prefix(subPattern, subLength))
    /\ LET point == subPattern[subI + 1]
           sub == [dx |-> FloorDiv(point.dx, subMultiple),
                   dy |-> FloorDiv(point.dy, subMultiple),
                   delay |-> point.delay]
           block == [j \in 1..subMultiple |-> sub]
       IN  /\ subResult' = subResult \o block
           /\ subFloor' = subFloor \o block
           /\ subSumX' = subSumX + subMultiple * sub.dx
           /\ subSumY' = subSumY + subMultiple * sub.dy
           /\ subSumXOrig' = subSumXOrig + point.dx
           /\ subSumYOrig' = subSumYOrig + point.dy
    /\ subPc' = "gap"
    /\ UNCHANGED <<subPattern, subMultiple, subLength, subI, subGapX, subGapY>>

\* lines 71-87: compute the rounding gaps and add one unit to the last
\* gap sub-points
SubDistribute ==
    /\ subPc = "gap"
    /\ LET gx == Round(subSumXOrig - subSumX)
           gy == Round(subSumYOrig - subSumY)
           tx == GapTargets(subResult, subMultiple, subI, gx)
           ty == GapTargets(subResult, subMultiple, subI, gy)
       IN  /\ subGapX' = gx
           /\ subGapY' = gy
           /\ subResult' = [p \in 1..Len(subResult) |->
                  [dx |-> subResult[p].dx + (IF p \in tx THEN Scale ELSE 0),
                   dy |-> subResult[p].dy + (IF p \in ty THEN Scale ELSE 0),
                   delay |-> subResult[p].delay]]
           /\ subSumX' = subSumX + Scale * Cardinality(tx)
           /\ subSumY' = subSumY + Scale * Cardinality(ty)
    /\ subI' = subI + 1
    /\ subPc' = "emit"
    /\ UNCHANGED <<subPattern, subMultiple, subLength, subFloor,
                   subSumXOrig, subSumYOrig>>

\* line 89: return result
SubReturn ==
    /\ subPc = "emit"
    /\ subI >= Len(Prefix(subPattern, subLength))
    /\ subPc' = "done"
    /\ UNCHANGED <<subPattern, subMultiple, subLength, subI, subResult,
                   subFloor, subSumX, subSumY, subSumXOrig, subSumYOrig,
                   subGapX, subGapY>>

SubNext ==
    \/ SubReturnVerbatim
    \/ SubBegin
    \/ SubEmit
    \/ SubDistribute
    \/ SubReturn


(***************************************************************************)
(* C1: when subdivide has returned, the sum of dx (and of dy) over the     *)
(* result equals the sum over pattern[:length]; exactly when all raw       *)
(* displacements are whole numbers, otherwise the two sums differ by less  *)
(* than one unit.  Negative displacements included.                        *)
(***************************************************************************)
IsWhole(v) == v % Scale = 0

AllWhole(s) == \A p \in 1..Len(s) : IsWhole(s[p].dx) /\ IsWhole(s[p].dy)

SubdivisionExact ==
    subPc = "done" =>
        LET raw == Prefix(subPattern, subLength)
            ex == SumDx(raw) - SumDx(subResult)
            ey == SumDy(raw) - SumDy(subResult)
        IN  /\ Abs(ex) < Scale
            /\ Abs(ey) < Scale
            /\ AllWhole(raw) => (ex = 0 /\ ey = 0)

\* a subdivided pattern with a negative, non-whole raw displacement that
\* needed gap distribution
SubdivisionExactWitness ==
    /\ subPc = "done"
    /\ subMultiple >= 2
    /\ Len(subPattern) >= 2
    /\ subLength >= 2
    /\ \E p \in 1..Len(subPattern) : subPattern[p].dx < 0 /\ ~IsWhole(subPattern[p].dx)
    /\ subResult # subFloor

(***************************************************************************)
(* C17: when subdivide has returned, for multiple >= 2 the result has      *)
(* min(length, len(pattern)) * multiple points; for multiple <= 1 or an    *)
(* empty pattern the result is pattern[:length] itself, the same points in *)
(* the same order.                                                         *)
(***************************************************************************)
SubdivisionLength ==
    subPc = "done" =>
        LET n == IF subLength < Len(subPattern) THEN subLength ELSE Len(subPattern)
        IN  /\ subMultiple >= 2 => Len(subResult) = n * subMultiple
            /\ (subMultiple <= 1 \/ subPattern = <<>>) =>
                   subResult = SubSeq(subPattern, 1, n)

\* a pattern longer than `length` was cut to `length` points and each of
\* them subdivided
SubdivisionLengthWitness ==
    /\ subPc = "done"
    /\ subMultiple >= 2
    /\ subLength < Len(subPattern)
    /\ Len(subResult) = subLength * subMultiple

(***************************************************************************)
(* C18: subdivide of the one-point pattern (dx=10, dy=20, delay=15) with   *)
(* multiple 4.                                                             *)
(***************************************************************************)
ExamplePattern == <<[dx |-> 10 * Scale, dy |-> 20 * Scale, delay |-> 15]>>

ExampleReturned ==
    /\ subPc = "done"
    /\ subPattern = ExamplePattern
    /\ subMultiple = 4

\* the dx values of a pattern, as whole numbers
DxOf(s) == [p \in 1..Len(s) |-> s[p].dx \div Scale]

\* C18 as stated: the result has 4 points, each with delay 15, whose dx
\* values are 2, 2, 2, 4 in this order
SubdivideExampleLastPoint ==
    ExampleReturned =>
        /\ Len(subResult) = 4
        /\ \A p \in 1..Len(subResult) : subResult[p].delay = 15
        /\ DxOf(subResult) = <<2, 2, 2, 4>>

\* C18 amended: the result has 4 points, each with delay 15 and dy 5, whose
\* dx values are 2, 2, 3, 3 in this order (the gap of 2 left by flooring
\* 10/4 is added one unit each to the last two sub-points)
SubdivideExample ==
    ExampleReturned =>
        /\ Len(subResult) = 4
        /\ \A p \in 1..Len(subResult) :
              /\ subResult[p].delay = 15
              /\ subResult[p].dy = 5 * Scale
              /\ IsWhole(subResult[p].dx)
        /\ DxOf(subResult) = <<2, 2, 3, 3>>

\* the example has been computed and its gap distributed
SubdivideExampleWitness ==
    /\ ExampleReturned
    /\ subGapX = 2
    /\ subResult # subFloor

(***************************************************************************)
(* C28: before gap redistribution, every sub-point emitted for a raw point *)
(* has dx and dy equal to the raw value divided by multiple and truncated  *)
(* toward zero, for negative as well as positive raw values.               *)
(***************************************************************************)
\* v / m truncated toward zero, for the fixed-point value v
TruncDiv(v, m) ==
    (IF v >= 0 THEN v \div (Scale * m) ELSE -((-v) \div (Scale * m))) * Scale

SubPointsTruncated ==
    subMultiple >= 2 =>
        \A p \in 1..Len(subFloor) :
            LET raw == subPattern[((p - 1) \div subMultiple) + 1]
            IN  /\ subFloor[p].dx = TruncDiv(raw.dx, subMultiple)
                /\ subFloor[p].dy = TruncDiv(raw.dy, subMultiple)

\* C28 amended: before gap redistribution, every sub-point emitted for a
\* raw point has dx and dy equal to the arithmetic floor of the raw value
\* divided by multiple: the largest whole number f with f * multiple <= raw
\* value, which for a negative raw value that is not a multiple of
\* `multiple` lies one below the truncated quotient.
SubPointsFloored ==
    subMultiple >= 2 =>
        \A p \in 1..Len(subFloor) :
            LET raw == subPattern[((p - 1) \div subMultiple) + 1]
                fx == subFloor[p].dx
                fy == subFloor[p].dy
            IN  /\ IsWhole(fx) /\ IsWhole(fy)
                /\ fx * subMultiple <= raw.dx
                /\ raw.dx < (fx + Scale) * subMultiple
                /\ fy * subMultiple <= raw.dy
                /\ raw.dy < (fy + Scale) * subMultiple
                /\ subFloor[p].delay = raw.delay

\* sub-points were emitted for a negative raw dx, one below the truncated
\* quotient
SubPointsFlooredWitness ==
    /\ subPc = "gap"
    /\ subMultiple >= 2
    /\ subPattern[subI + 1].dx < 0
    /\ subFloor[Len(subFloor)].dx = TruncDiv(subPattern[subI + 1].dx, subMultiple) - Scale

(***************************************************************************)
(* C29: the gap computed after the sub-points of raw index i satisfies     *)
(* 0 <= gap <= multiple on each axis; the distribution adds one unit to    *)
(* exactly the last gap sub-points of that raw index (output indices in    *)
(* [multiple*i, multiple*(i+1)-1], from the last backward) and changes no  *)
(* other point, none of an earlier raw index in particular.                *)
(***************************************************************************)
GapWithinBlock ==
    [][(subPc = "gap" /\ subPc' = "emit") =>
        LET last == subMultiple * (subI + 1)
        IN  /\ 0 <= subGapX' /\ subGapX' <= subMultiple
            /\ 0 <= subGapY' /\ subGapY' <= subMultiple
            /\ Len(subResult') = Len(subResult)
            /\ \A p \in 1..Len(subResult) :
                  /\ subResult'[p].dx = subResult[p].dx +
                        (IF p > last - subGapX' /\ p <= last THEN Scale ELSE 0)
                  /\ subResult'[p].dy = subResult[p].dy +
                        (IF p > last - subGapY' /\ p <= last THEN Scale ELSE 0)
                  /\ subResult'[p].delay = subResult[p].delay]_subVars

\* the gap of the second raw point was as large as multiple: every
\* sub-point of its block was adjusted, none of the first block
GapWithinBlockWitness ==
    /\ subPc = "emit"
    /\ subI = 2
    /\ subMultiple >= 2
    /\ subGapX = subMultiple
    /\ \A p \in 1..subMultiple : subResult[p].dx = subFloor[p].dx

(***************************************************************************)
(* RecoilService, WeaponDetectionService and the threads that call them.   *)
(***************************************************************************)
\* number of points of a calculated pattern (len(pattern))
PatLen == 3

\* the thread objects start_compensation can create
Sessions == {1, 2}

\* weapon names present in config_service.weapon_profiles
Weapons == {"A", "B"}
\* no weapon selected (None)
NoWeapon == "none"
\* a weapon name with no loaded profile
UnknownWeapon == "X"

\* the thread of the GUI and hotkey handlers, and the two workers of the
\* GSI executor (max_workers=2)
Callers == {"ui", "g1", "g2"}
ManualCallers == {"ui"}
SnapshotCallers == {"g1", "g2"}
\* the operator and a single worker
OneWorker == {"ui", "g1"}

\* player snapshots: should_enable_rcs and rcs_weapon_pattern
Snapshots == {[should |-> FALSE, pattern |-> NoWeapon],
              [should |-> TRUE, pattern |-> "A"],
              [should |-> TRUE, pattern |-> "B"]}
NoSnapshot == [should |-> FALSE, pattern |-> NoWeapon]

Free == [kind |-> "free", sid |-> 0, cid |-> "-"]
SLock(t) == [kind |-> "session", sid |-> t, cid |-> "-"]
CLock(c) == [kind |-> "caller", sid |-> 0, cid |-> c]

VARIABLES
    active,                 \* RecoilService.active
    current_weapon,         \* RecoilService.current_weapon
    running_thread,         \* RecoilService.running_thread (0: None)
    stop_event,             \* RecoilService.stop_event
    weapon_change_event,    \* RecoilService.weapon_change_event
    weapon_lock,            \* holder of RecoilService.weapon_lock
    jitterSet,              \* weapons whose profile has jitter_movement/jitter_timing
    trigger,                \* input_service.is_key_pressed(key_trigger)
    sessions,               \* the threads running _compensation_loop
    callers,                \* the threads calling into the services
    enabled,                \* WeaponDetectionService.enabled
    detection_state,        \* WeaponDetectionService.detection_state
    graceElapsed,           \* _should_allow_auto_activation(time.time())
    owner,                  \* who made the engine active: "none", "manual", "auto"
    moved,                  \* session that called mouse_move in this step (0: none)
    returned,               \* the service call that returned in this step
    status_event            \* the status passed to the callbacks in this step

engineVars == <<active, current_weapon, running_thread, stop_event,
                weapon_change_event, weapon_lock, jitterSet, trigger,
                sessions, callers, enabled, detection_state, graceElapsed, owner, moved, returned,
                status_event>>

(***************************************************************************)
(* Ammunition monitoring of the detection state machine                    *)
(* (WeaponDetectionState.update_ammo, _process_ammo_monitoring).           *)
(***************************************************************************)
\* largest magazine content of a snapshot
MaxAmmo == 7
\* WeaponDetectionService.low_ammo_threshold
low_ammo_threshold == 5
\* no magazine content seen yet
NoAmmo == -1

VARIABLES
    last_ammo_count,   \* detection_state.last_ammo_count
    ammo_clip,         \* ammo_clip of the snapshot's active weapon
    is_rcs_eligible,   \* is_rcs_eligible of the snapshot's active weapon
    ammoPc,            \* "idle" or "monitor" (inside _process_ammo_monitoring)
    prevClip,          \* ammo_clip of the snapshot before this one
    lowAmmoWarned,     \* _handle_low_ammo_warning was called for this snapshot
    emptyHandled       \* _handle_empty_magazine was called for this snapshot

ammoVars == <<last_ammo_count, ammo_clip, is_rcs_eligible, ammoPc, prevClip,
              lowAmmoWarned, emptyHandled>>

(***************************************************************************)
(* TimingService.sleep_until and PrecisionSleep.sleep_absolute.  Times are *)
(* whole multiples of 1/TimeScale ms.                                      *)
(***************************************************************************)
TimeScale == 2
\* largest target_time_ms and start_time_ms of a call, in ms
MaxTargetMs == 21
MaxStartMs == 1
\* the clock stops advancing here
MaxClock == (MaxStartMs + MaxTargetMs + 2) * TimeScale

VARIABLES
    clock,            \* what get_time_ms / get_current_time reads
    sleepPc,          \* position of the calling thread in sleep_until
    strategy,         \* "high_precision" or "standard" (the fallback)
    target_time_ms,   \* argument of the call
    start_time_ms,    \* argument of the call (begin_time_ms)
    remaining         \* local of the call

sleepVars == <<clock, sleepPc, strategy, target_time_ms, start_time_ms,
               remaining>>

(***************************************************************************)
(* WeaponProfile.calculated_pattern: recalculation by the configuration    *)
(* handler while the session thread reads it.  The call of subdivide in    *)
(* progress is the one of the sub* variables.                              *)
(***************************************************************************)
\* number of recalculations after the one of the constructor
MaxRecalc == 2

\* recoil_pattern of the profile: points with non-whole displacements of
\* both signs, so that gaps are distributed
ProfilePatterns ==
    {p \in RawPatterns :
        \A k \in 1..Len(p) : p[k].dx \in {-3, 3} /\ p[k].dy = 2}

VARIABLES
    calculated_pattern,   \* WeaponProfile.calculated_pattern
    pattern,              \* local of _compensation_loop (line 274)
    readAt,               \* where the recalculation was when pattern was read
    completed,            \* the lists subdivide has returned so far
    recalcs               \* number of recalculate_pattern calls

calcVars == <<calculated_pattern, pattern, readAt, completed, recalcs>>

\* line 126: calculated_pattern = [] before the first _calculate_pattern
CalcIdle ==
    /\ calculated_pattern = <<>>
    /\ pattern = <<>>
    /\ readAt = "never"
    /\ completed = {}
    /\ recalcs = 0

\* lines 134-143: subdivide has returned and its result is assigned to
\* calculated_pattern
AssignPattern ==
    /\ subPc = "done"
    /\ calculated_pattern' = subResult
    /\ completed' = completed \cup {subResult}
    /\ subPc' = "assigned"
    /\ UNCHANGED <<subPattern, subMultiple, subLength, subI, subResult,
                   subFloor, subSumX, subSumY, subSumXOrig, subSumYOrig,
                   subGapX, subGapY, pattern, readAt, recalcs>>

\* config_tab.py:757, 767 and weapon.py:176-178: the multiple is changed
\* and recalculate_pattern calls subdivide again
RecalculatePattern(m) ==
    /\ subPc = "assigned"
    /\ recalcs < MaxRecalc
    /\ recalcs' = recalcs + 1
    /\ subMultiple' = m
    /\ subPc' = "start"
    /\ subI' = 0
    /\ subResult' = <<>>
    /\ subFloor' = <<>>
    /\ subSumX' = 0 /\ subSumY' = 0
    /\ subSumXOrig' = 0 /\ subSumYOrig' = 0
    /\ subGapX' = 0 /\ subGapY' = 0
    /\ UNCHANGED <<subPattern, subLength, calculated_pattern, pattern,
                   readAt, completed>>

\* what a read of weapon.calculated_pattern yields: the list last assigned
\* to the attribute, not the list subdivide is building
VisiblePatternWrong(assigned, result) == result
VisiblePattern(assigned, result) == assigned

\* recoil_service.py:274: pattern = weapon.calculated_pattern, at any
\* moment once the profile is constructed
ReadPattern ==
    /\ completed # {}
    /\ pattern' = VisiblePattern(calculated_pattern, subResult)
    /\ readAt' = subPc
    /\ UNCHANGED <<subVars, calculated_pattern, completed, recalcs>>

CalcNext ==
    \/ SubNext /\ UNCHANGED calcVars
    \/ AssignPattern
    \/ \E m \in 1..MaxMultiple : RecalculatePattern(m)
    \/ ReadPattern

SleepIdle ==
    /\ clock = 0
    /\ sleepPc = "idle"
    /\ strategy = "high_precision"
    /\ target_time_ms = 0
    /\ start_time_ms = 0
    /\ remaining = 0

\* time passes, whatever the thread is doing
TimePasses ==
    /\ clock < MaxClock
    /\ clock' = clock + 1
    /\ UNCHANGED <<sleepPc, strategy, target_time_ms, start_time_ms, remaining>>

\* lines 164-181: the strategy is chosen at construction; the fallback
\* ("standard") when the high-precision timer cannot be set up
SleepInit ==
    /\ clock = 0
    /\ sleepPc = "idle"
    /\ strategy \in {"high_precision", "standard"}
    /\ target_time_ms = 0
    /\ start_time_ms = 0
    /\ remaining = 0

\* lines 201-203: sleep_until is called.  The first call of a sequence
\* takes a start time that is not in the future; the following calls keep
\* it and take a larger target (recoil_service.py:317, 358, 407).
SleepUntil(target, start) ==
    /\ \/ sleepPc = "idle" /\ start <= clock
       \/ sleepPc = "returned" /\ start = start_time_ms /\ target > target_time_ms
    /\ target_time_ms' = target
    /\ start_time_ms' = start
    /\ remaining' = 0
    /\ sleepPc' = IF strategy = "high_precision" THEN "hp_read" ELSE "fb_read"
    /\ UNCHANGED <<clock, strategy>>

\* lines 90-91, 207-209: the remaining time, from the clock just read
RemainingWrong(target_absolute, current) == target_absolute
Remaining(target_absolute, current) == target_absolute - current

\* lines 93, 210: the test that ends the wait
ExpiredWrong(rem) == rem <= TimeScale
Expired(rem) == rem <= 0

\* lines 87-94: read the clock, compute remaining, leave the loop when
\* nothing remains
ReadClock ==
    /\ sleepPc = "hp_read"
    /\ LET target_absolute == start_time_ms + target_time_ms
           current == clock
       IN  /\ remaining' = Remaining(target_absolute, current)
           /\ sleepPc' = IF Expired(remaining') THEN "returned" ELSE "hp_sleep"
    /\ UNCHANGED <<clock, strategy, target_time_ms, start_time_ms>>

\* lines 121-137: the duration _adaptive_sleep passes to time.sleep for
\* the remaining time; 0 when it only busy-waits
AdaptiveSleep(rem) ==
    IF rem > 20 * TimeScale THEN rem - 15 * TimeScale
    ELSE IF rem > 5 * TimeScale THEN rem - 3 * TimeScale
    ELSE IF rem > 2 * TimeScale THEN TimeScale \div 2
    ELSE 0

\* line 96: _adaptive_sleep(remaining); time.sleep suspends the thread for
\* at least the duration asked
AdaptiveSleepStep ==
    /\ sleepPc = "hp_sleep"
    /\ clock' = clock + AdaptiveSleep(remaining)
    /\ sleepPc' = "hp_read"
    /\ UNCHANGED <<strategy, target_time_ms, start_time_ms, remaining>>

\* lines 207-210: the fallback reads the clock once
FallbackRead ==
    /\ sleepPc = "fb_read"
    /\ LET target_absolute == start_time_ms + target_time_ms
           current == clock
       IN  /\ remaining' = Remaining(target_absolute, current)
           /\ sleepPc' = IF Expired(remaining') THEN "returned" ELSE "fb_sleep"
    /\ UNCHANGED <<clock, strategy, target_time_ms, start_time_ms>>

\* line 211: time.sleep(remaining / 1000.0), once
FallbackSleep ==
    /\ sleepPc = "fb_sleep"
    /\ clock' = clock + remaining
    /\ sleepPc' = "returned"
    /\ UNCHANGED <<strategy, target_time_ms, start_time_ms, remaining>>

SleepNext ==
    \/ TimePasses
    \/ \E target \in {ms * TimeScale : ms \in 0..MaxTargetMs},
          start \in 0..(MaxStartMs * TimeScale) : SleepUntil(target, start)
    \/ ReadClock
    \/ AdaptiveSleepStep
    \/ FallbackRead
    \/ FallbackSleep

\* WeaponDetectionState.__init__: last_ammo_count = -1
AmmoInit ==
    /\ last_ammo_count = NoAmmo
    /\ ammo_clip = NoAmmo
    /\ is_rcs_eligible = FALSE
    /\ ammoPc = "idle"
    /\ prevClip = NoAmmo
    /\ lowAmmoWarned = FALSE
    /\ emptyHandled = FALSE

\* lines 32-43: the value update_ammo returns
UpdateAmmoWrong(last, ammo_count) == last >= 0
UpdateAmmo(last, ammo_count) ==
    LET current_is_empty == ammo_count = 0
        previous_was_empty == last = 0
    IN  last >= 0 /\ current_is_empty # previous_was_empty

\* lines 244-248: a snapshot with an active weapon enters
\* _process_ammo_monitoring
AmmoSnapshot(a, e) ==
    /\ ammoPc = "idle"
    /\ ammoPc' = "monitor"
    /\ ammo_clip' = a
    /\ is_rcs_eligible' = e
    /\ prevClip' = ammo_clip
    /\ lowAmmoWarned' = FALSE
    /\ emptyHandled' = FALSE
    /\ UNCHANGED last_ammo_count

\* lines 249-260: update_ammo, then the low-ammo warning and the empty
\* magazine handler
AmmoMonitor ==
    /\ ammoPc = "monitor"
    /\ LET ammo_state_changed == UpdateAmmo(last_ammo_count, ammo_clip)
       IN  /\ lowAmmoWarned' = (/\ ammo_clip <= low_ammo_threshold
                                /\ ammo_clip > 0
                                /\ ammo_state_changed
                                /\ is_rcs_eligible)
           /\ emptyHandled' = (ammo_clip = 0 /\ ammo_state_changed)
    /\ last_ammo_count' = ammo_clip
    /\ ammoPc' = "idle"
    /\ UNCHANGED <<ammo_clip, is_rcs_eligible, prevClip>>

\* lines 45-50: reset (called by enable and disable)
AmmoReset ==
    /\ ammoPc = "idle"
    /\ last_ammo_count # NoAmmo
    /\ last_ammo_count' = NoAmmo
    /\ UNCHANGED <<ammo_clip, is_rcs_eligible, ammoPc, prevClip,
                   lowAmmoWarned, emptyHandled>>

AmmoNext ==
    \/ \E a \in 0..MaxAmmo, e \in BOOLEAN : AmmoSnapshot(a, e)
    \/ AmmoMonitor
    \/ AmmoReset

(***************************************************************************)
(* The movement of a sequence: _execute_compensation_sequence turns the    *)
(* intended movement of each tick into whole pixels and carries the        *)
(* fraction (recoil_service.py:320-388).  Movements are whole multiples of *)
(* 1/PixelScale pixel.                                                     *)
(***************************************************************************)
PixelScale == 4
\* number of movement ticks of a sequence
MaxTicks == 4
\* dx_float, dy_float of a tick: point.dx * scale_x, -point.dy * scale_y
MoveVals == {-7, -5, -1, 0, 3, 6}
\* the same for point 0 of the pattern
OriginVals == {-5, 3}

VARIABLES
    sum_x, sum_y,                   \* the carried fractions
    accumulated_x, accumulated_y,   \* whole pixels passed to mouse_move so far
    intended_x, intended_y,         \* sum of dx_float, dy_float so far
    tick,                           \* number of movement ticks done
    point_index,                    \* i of the point handled last (-1: none)
    origin_x, origin_y,             \* dx_float, dy_float of point 0
    pattern_x, pattern_y,           \* sum of dx_float, dy_float of all points so far
    mouse_moves                     \* calls of mouse_move in the last tick

carryVars == <<sum_x, sum_y, accumulated_x, accumulated_y, intended_x,
               intended_y, tick, point_index, origin_x, origin_y,
               pattern_x, pattern_y, mouse_moves>>

\* lines 320-329: the sums are zeroed when a sequence begins
CarryInit ==
    /\ sum_x = 0 /\ sum_y = 0
    /\ accumulated_x = 0 /\ accumulated_y = 0
    /\ intended_x = 0 /\ intended_y = 0
    /\ tick = 0
    /\ point_index = -1
    /\ origin_x = 0 /\ origin_y = 0
    /\ pattern_x = 0 /\ pattern_y = 0
    /\ mouse_moves = 0

\* int(v) of Python: the whole part of the fixed-point value v, toward zero
IntPart(v) == IF v >= 0 THEN v \div PixelScale ELSE -((-v) \div PixelScale)

\* lines 381-382: what is kept of the sum after dx_int has been taken out
CarriedWrong(sum, whole) == 0
Carried(sum, whole) == sum - whole * PixelScale

\* lines 355-359: what point 0 adds to a running sum (the tick ends with
\* continue before the sums are touched)
OriginShareWrong(d_float) == d_float
OriginShare(d_float) == 0

\* lines 346-359: the tick of point 0 sets the timing origin
OriginTick(dx_float, dy_float) ==
    /\ point_index = -1
    /\ point_index' = 0
    /\ origin_x' = dx_float
    /\ origin_y' = dy_float
    /\ pattern_x' = pattern_x + dx_float
    /\ pattern_y' = pattern_y + dy_float
    /\ sum_x' = sum_x + OriginShare(dx_float)
    /\ sum_y' = sum_y + OriginShare(dy_float)
    /\ mouse_moves' = 0
    /\ UNCHANGED <<accumulated_x, accumulated_y, intended_x, intended_y, tick>>

\* lines 384-385: the calls of mouse_move for the deltas of a tick
MouseMoveCallsWrong(dx_int, dy_int) ==
    (IF dx_int # 0 THEN 1 ELSE 0) + (IF dy_int # 0 THEN 1 ELSE 0)
MouseMoveCalls(dx_int, dy_int) ==
    IF dx_int # 0 \/ dy_int # 0 THEN 1 ELSE 0

\* lines 375-388: one movement tick
MoveTick(dx_float, dy_float) ==
    /\ point_index >= 0
    /\ tick < MaxTicks
    /\ LET sx == sum_x + dx_float
           sy == sum_y + dy_float
           dx_int == IntPart(sx)
           dy_int == IntPart(sy)
       IN  /\ sum_x' = Carried(sx, dx_int)
           /\ sum_y' = Carried(sy, dy_int)
           /\ accumulated_x' = accumulated_x +
                 (IF dx_int # 0 \/ dy_int # 0 THEN dx_int ELSE 0)
           /\ accumulated_y' = accumulated_y +
                 (IF dx_int # 0 \/ dy_int # 0 THEN dy_int ELSE 0)
           /\ mouse_moves' = MouseMoveCalls(dx_int, dy_int)
    /\ intended_x' = intended_x + dx_float
    /\ intended_y' = intended_y + dy_float
    /\ tick' = tick + 1
    /\ point_index' = point_index + 1
    /\ pattern_x' = pattern_x + dx_float
    /\ pattern_y' = pattern_y + dy_float
    /\ UNCHANGED <<origin_x, origin_y>>

\* lines 320-329: the next sequence begins
NextSequence ==
    /\ tick > 0
    /\ sum_x' = 0 /\ sum_y' = 0
    /\ accumulated_x' = 0 /\ accumulated_y' = 0
    /\ intended_x' = 0 /\ intended_y' = 0
    /\ tick' = 0
    /\ point_index' = -1
    /\ origin_x' = 0 /\ origin_y' = 0
    /\ pattern_x' = 0 /\ pattern_y' = 0
    /\ mouse_moves' = 0

CarryNext ==
    \/ \E dx_float \in OriginVals, dy_float \in OriginVals : OriginTick(dx_float, dy_float)
    \/ \E dx_float \in MoveVals, dy_float \in MoveVals : MoveTick(dx_float, dy_float)
    \/ NextSequence

(***************************************************************************)
(* Configuration loading (config_service.py).  The configuration file      *)
(* either does not exist or holds a list of weapon entries; load_config    *)
(* reads it and rebuilds the weapon profiles.  An entry is a valid entry   *)
(* or a valid entry with one field out of range or missing; csv tells      *)
(* whether the pattern file of the weapon can be loaded.                   *)
(***************************************************************************)
MaxEntries == 2
MaxLoads == 2

ConfigNames == {"ak47", "m4a1"}
required_fields == {"name", "length", "multiple", "sleep_divider"}

ValidEntry(n) ==
    [name |-> n, present |-> required_fields, length |-> 2, multiple |-> 3,
     sleep_divider |-> 6, jitter_movement |-> 5, csv |-> TRUE]

WeaponEntries ==
    UNION {{ValidEntry(n),
            [ValidEntry(n) EXCEPT !.length = 1],
            [ValidEntry(n) EXCEPT !.length = 0],
            [ValidEntry(n) EXCEPT !.present = required_fields \ {"length"}],
            [ValidEntry(n) EXCEPT !.multiple = 0],
            [ValidEntry(n) EXCEPT !.sleep_divider = 0],
            [ValidEntry(n) EXCEPT !.jitter_movement = 150],
            [ValidEntry(n) EXCEPT !.csv = FALSE]} : n \in ConfigNames}

WeaponLists == UNION {[1..k -> WeaponEntries] : k \in 0..MaxEntries}

ConfigFiles ==
    {[exists |-> FALSE, weapons |-> <<>>]}
        \cup {[exists |-> TRUE, weapons |-> ws] : ws \in WeaponLists}

NoProfile == [name |-> "", length |-> 0, multiple |-> 0, sleep_divider |-> 0]

VARIABLES config_file, weapon_profiles, loads

configVars == <<config_file, weapon_profiles, loads>>

\* ConfigService constructed with no configuration file: no profile
ConfigInit ==
    /\ config_file = [exists |-> FALSE, weapons |-> <<>>]
    /\ weapon_profiles = [n \in ConfigNames |-> NoProfile]
    /\ loads = 0

validate_weapon_data(weapon_data) ==
    /\ required_fields \subseteq weapon_data.present
    /\ weapon_data.name # ""
    /\ weapon_data.length > 0
    /\ weapon_data.multiple > 0
    /\ weapon_data.sleep_divider > 0

NewProfile(weapon_config) ==
    [name |-> weapon_config.name, length |-> weapon_config.length,
     multiple |-> weapon_config.multiple,
     sleep_divider |-> weapon_config.sleep_divider]

RECURSIVE load_weapon_profiles(_)
load_weapon_profiles(weapons_config) ==
    IF weapons_config = <<>>
    THEN [n \in ConfigNames |-> NoProfile]
    ELSE LET k == Len(weapons_config)
             weapon_config == weapons_config[k]
             profiles == load_weapon_profiles(SubSeq(weapons_config, 1, k - 1))
         IN  IF validate_weapon_data(weapon_config) /\ weapon_config.csv
             THEN [profiles EXCEPT ![weapon_config.name] = NewProfile(weapon_config)]
             ELSE profiles

\* the configuration file is edited, removed or created
EditConfig(f) ==
    /\ loads < MaxLoads
    /\ f # config_file
    /\ config_file' = f
    /\ UNCHANGED <<weapon_profiles, loads>>

\* load_config: a missing file leaves the profiles as they are; otherwise
\* the profiles are replaced by those built from the file
load_config ==
    /\ loads < MaxLoads
    /\ loads' = loads + 1
    /\ weapon_profiles' =
           IF config_file.exists
           THEN load_weapon_profiles(config_file.weapons)
           ELSE weapon_profiles
    /\ UNCHANGED config_file

ConfigNext ==
    \/ \E f \in ConfigFiles : EditConfig(f)
    \/ load_config

(***************************************************************************)
(* The follow-RCS overlay (recoil_service.py:60-63, 301-302, 325-326,      *)
(* 370-371).  overlay_position is the position last passed to              *)
(* update_position: "origin" for (0.0, 0.0), "recoil" for the accumulated  *)
(* raw recoil of a sequence.                                               *)
(***************************************************************************)
VARIABLES overlay_position

overlayVars == <<overlay_position>>

OverlayInit == overlay_position = "origin"

(***************************************************************************)
(* TimingService: construction and the choice between the high-resolution  *)
(* timer and the standard clock and sleep (timing_service.py:164-211).     *)
(* The call of sleep_until in progress is the one of the sleep variables.  *)
(***************************************************************************)
VARIABLES
    hires_available,  \* WindowsTimer() can be constructed
    timer,            \* TimingService.timer: "WindowsTimer" or "None"
    precision_sleep,  \* TimingService.precision_sleep: "PrecisionSleep" or "None"
    time_source,      \* the clock read last: "none", "timer", "time.time",
                      \* or "AttributeError" for a read through a None timer
    sleep_source,     \* the sleep used last: "none", "precision", "time.sleep"
    completed_ops     \* the operations that have returned

timingVars == <<hires_available, timer, precision_sleep, time_source,
                sleep_source, completed_ops>>

\* a service constructed with the high-precision strategy, not yet used
TimingIdle ==
    /\ hires_available = TRUE
    /\ timer = "WindowsTimer"
    /\ precision_sleep = "PrecisionSleep"
    /\ time_source = "none"
    /\ sleep_source = "none"
    /\ completed_ops = {}

\* line 169: __init__ has stored the strategy it was given
TimingNew ==
    /\ clock = 0
    /\ sleepPc = "new"
    /\ strategy \in {"high_precision", "standard"}
    /\ target_time_ms = 0
    /\ start_time_ms = 0
    /\ remaining = 0
    /\ hires_available \in BOOLEAN
    /\ timer = "None"
    /\ precision_sleep = "None"
    /\ time_source = "none"
    /\ sleep_source = "none"
    /\ completed_ops = {}

\* line 181: the strategy after WindowsTimer() raised
FallbackStrategyWrong(requested) == requested
FallbackStrategy(requested) == "standard"

\* lines 171-181: create the timer and the precision sleep; on any
\* exception fall back to the standard strategy
TimingConstruct ==
    /\ sleepPc = "new"
    /\ sleepPc' = "idle"
    /\ IF hires_available
       THEN /\ timer' = "WindowsTimer"
            /\ precision_sleep' = "PrecisionSleep"
            /\ UNCHANGED strategy
       ELSE /\ timer' = "None"
            /\ precision_sleep' = "None"
            /\ strategy' = FallbackStrategy(strategy)
    /\ UNCHANGED <<clock, target_time_ms, start_time_ms, remaining,
                   hires_available, time_source, sleep_source, completed_ops>>

\* lines 185-188: the clock get_current_time reads
ClockRead(tm) == IF tm # "None" THEN "timer" ELSE "time.time"

\* what a call of the precision sleep reads: its timer
PrecisionRead(ps, tm) ==
    IF ps = "None" \/ tm = "None" THEN "AttributeError" ELSE "timer"

\* lines 183-188: get_current_time, between two sleep_until calls
GetCurrentTime ==
    /\ sleepPc \in {"idle", "returned"}
    /\ time_source' = ClockRead(timer)
    /\ completed_ops' = completed_ops \cup {"now"}
    /\ UNCHANGED <<sleepVars, hires_available, timer, precision_sleep,
                   sleep_source>>

\* lines 190-199: sleep(duration_ms)
Sleep(duration_ms) ==
    /\ sleepPc \in {"idle", "returned"}
    /\ clock + duration_ms <= MaxClock
    /\ IF duration_ms <= 0
       THEN UNCHANGED <<clock, time_source, sleep_source>>
       ELSE /\ clock' = clock + duration_ms
            /\ IF strategy = "high_precision" /\ precision_sleep # "None"
               THEN /\ sleep_source' = "precision"
                    /\ time_source' = PrecisionRead(precision_sleep, timer)
               ELSE /\ sleep_source' = "time.sleep"
                    /\ UNCHANGED time_source
    /\ completed_ops' = completed_ops \cup {"sleep"}
    /\ UNCHANGED <<sleepPc, strategy, target_time_ms, start_time_ms,
                   remaining, hires_available, timer, precision_sleep>>

\* the steps of sleep_until, with the clock and the sleep they use
TimingSleepUntil(target, start) ==
    /\ SleepUntil(target, start)
    /\ UNCHANGED timingVars

TimingReadClock ==
    /\ ReadClock
    /\ time_source' = PrecisionRead(precision_sleep, timer)
    /\ completed_ops' = IF sleepPc' = "returned"
                        THEN completed_ops \cup {"sleep_until"}
                        ELSE completed_ops
    /\ UNCHANGED <<hires_available, timer, precision_sleep, sleep_source>>

TimingAdaptiveSleep ==
    /\ AdaptiveSleepStep
    /\ sleep_source' = "precision"
    /\ UNCHANGED <<hires_available, timer, precision_sleep, time_source,
                   completed_ops>>

TimingFallbackRead ==
    /\ FallbackRead
    /\ time_source' = ClockRead(timer)
    /\ completed_ops' = IF sleepPc' = "returned"
                        THEN completed_ops \cup {"sleep_until"}
                        ELSE completed_ops
    /\ UNCHANGED <<hires_available, timer, precision_sleep, sleep_source>>

TimingFallbackSleep ==
    /\ FallbackSleep
    /\ sleep_source' = "time.sleep"
    /\ completed_ops' = completed_ops \cup {"sleep_until"}
    /\ UNCHANGED <<hires_available, timer, precision_sleep, time_source>>

TimingNext ==
    \/ TimingConstruct
    \/ TimePasses /\ sleepPc # "new" /\ UNCHANGED timingVars
    \/ GetCurrentTime
    \/ \E ms \in {0, 1, 3} : Sleep(ms * TimeScale)
    \/ \E ms \in {0, 2, 7} : TimingSleepUntil(ms * TimeScale, 0)
    \/ TimingReadClock
    \/ TimingAdaptiveSleep
    \/ TimingFallbackRead
    \/ TimingFallbackSleep

(***************************************************************************)
(* The target weapon of a snapshot (player_state.py,                       *)
(* weapon_detection_service.py:152-165).  A snapshot is built from the     *)
(* data the game sends: health, and the active weapon if there is one,     *)
(* with its name, state and clip content.                                  *)
(***************************************************************************)
WeaponNames == {"weapon_ak47", "weapon_cz75a", "weapon_awp", "weapon_glock",
                "weapon_knife"}

RawSnapshots ==
    [health : {-5, 0, 60},
     has_weapon : BOOLEAN,
     name : WeaponNames,
     state : {"active", "holstered", "reloading"},
     ammo_clip : {-1, 0, 7}]

VARIABLES
    gsi_data,        \* the data received
    player_state,    \* the PlayerState built from it
    target_weapon,   \* local of _process_weapon_changes
    snapPc           \* "received", "built", "derived"

snapVars == <<gsi_data, player_state, target_weapon, snapPc>>

SnapInit ==
    /\ gsi_data = [health |-> 0, has_weapon |-> FALSE, name |-> "weapon_knife",
                   state |-> "holstered", ammo_clip |-> 0]
    /\ player_state = gsi_data
    /\ target_weapon = "none"
    /\ snapPc = "derived"

\* lines 47-90: the category of a weapon name
WeaponCategory(name) ==
    IF name \in {"weapon_ak47", "weapon_cz75a", "weapon_awp"} THEN "primary"
    ELSE IF name = "weapon_glock" THEN "secondary"
    ELSE IF name = "weapon_knife" THEN "melee"
    ELSE "unknown"

\* lines 99-123: the pattern of a weapon name, "none" when it has none
GetPatternName(name) ==
    IF name = "weapon_ak47" THEN "ak47"
    ELSE IF name = "weapon_cz75a" THEN "cz75"
    ELSE "none"

\* lines 92-97
IsRcsEligibleWrong(w) ==
    WeaponCategory(w.name) = "primary" /\ w.state = "active"
IsRcsEligible(w) ==
    /\ WeaponCategory(w.name) = "primary"
    /\ w.state = "active"
    /\ w.ammo_clip > 0

\* lines 163-169
ShouldEnableRcs(ps) ==
    IF ~(ps.health > 0) \/ ~ps.has_weapon THEN FALSE
    ELSE IsRcsEligible(ps)

\* lines 171-177
RcsWeaponPattern(ps) ==
    IF ~ShouldEnableRcs(ps) \/ ~ps.has_weapon THEN "none"
    ELSE GetPatternName(ps.name)

\* a snapshot arrives
Receive(raw) ==
    /\ snapPc = "derived"
    /\ gsi_data' = raw
    /\ snapPc' = "received"
    /\ UNCHANGED <<player_state, target_weapon>>

\* lines 31-35, 139-144: the constructors clamp the clip content and health
BuildPlayerState ==
    /\ snapPc = "received"
    /\ player_state' =
          [gsi_data EXCEPT !.health = IF @ < 0 THEN 0 ELSE IF @ > 100 THEN 100 ELSE @,
                           !.ammo_clip = IF @ < 0 THEN 0 ELSE @]
    /\ snapPc' = "built"
    /\ UNCHANGED <<gsi_data, target_weapon>>

\* weapon_detection_service.py:154-159
DeriveTarget ==
    /\ snapPc = "built"
    /\ target_weapon' =
          IF ShouldEnableRcs(player_state)
                /\ RcsWeaponPattern(player_state) # "none"
          THEN RcsWeaponPattern(player_state)
          ELSE "none"
    /\ snapPc' = "derived"
    /\ UNCHANGED <<gsi_data, player_state>>

SnapNext ==
    \/ \E raw \in RawSnapshots : Receive(raw)
    \/ BuildPlayerState
    \/ DeriveTarget

(***************************************************************************)
(* HotkeyService: start_monitoring, stop_monitoring and                    *)
(* reload_configuration called by one thread, and the HotkeyMonitor        *)
(* thread.  _monitoring_lock is a threading.Lock (line 258): it is not     *)
(* reentrant, an acquisition waits until the lock is free whoever holds    *)
(* it.                                                                     *)
(***************************************************************************)
\* number of changes of the hotkey configuration
MaxEdits == 2

VARIABLES
    hkPc,               \* position of the calling thread
    hkRet,              \* where the call in progress returns to
    hk_result,          \* what the last finished call returned
    monitoring_lock,    \* HotkeyService._monitoring_lock: TRUE when held
    is_monitoring,      \* HotkeyService.is_monitoring
    was_monitoring,     \* local of reload_configuration
    monitor_stop_event, \* HotkeyService.stop_event
    monitoring_thread,  \* the thread of monitoring_thread: "none", "alive", "exited"
    hotkey_mappings,    \* version of the configuration in hotkey_mappings
    current_mappings,   \* local of _monitoring_loop
    hotkeys             \* version of config_service.hotkeys

hotkeyVars == <<hkPc, hkRet, hk_result, monitoring_lock, is_monitoring,
                was_monitoring, monitor_stop_event, monitoring_thread,
                hotkey_mappings, current_mappings, hotkeys>>

\* lines 237-264: the constructor
HotkeyInit ==
    /\ hkPc = "idle"
    /\ hkRet = "idle"
    /\ hk_result = "none"
    /\ monitoring_lock = FALSE
    /\ is_monitoring = FALSE
    /\ was_monitoring = FALSE
    /\ monitor_stop_event = FALSE
    /\ monitoring_thread = "none"
    /\ hotkey_mappings = 0
    /\ current_mappings = 0
    /\ hotkeys = 0

\* the operator changes the hotkeys of the configuration
EditHotkeys ==
    /\ hotkeys < MaxEdits
    /\ hotkeys' = hotkeys + 1
    /\ UNCHANGED <<hkPc, hkRet, hk_result, monitoring_lock, is_monitoring,
                   was_monitoring, monitor_stop_event, monitoring_thread,
                   hotkey_mappings, current_mappings>>

\* threading.Lock.acquire: possible when nobody holds the lock
CanAcquire(lock) == ~lock

\* main.py:333: start_monitoring()
CallStartMonitoring ==
    /\ hkPc = "idle"
    /\ hkPc' = "start_acquire"
    /\ hkRet' = "idle"
    /\ hk_result' = "none"
    /\ UNCHANGED <<monitoring_lock, is_monitoring, was_monitoring,
                   monitor_stop_event, monitoring_thread, hotkey_mappings,
                   current_mappings, hotkeys>>

\* line 340: with self._monitoring_lock
StartAcquire ==
    /\ hkPc = "start_acquire"
    /\ CanAcquire(monitoring_lock)
    /\ monitoring_lock' = TRUE
    /\ hkPc' = "start_body"
    /\ UNCHANGED <<hkRet, hk_result, is_monitoring, was_monitoring,
                   monitor_stop_event, monitoring_thread, hotkey_mappings,
                   current_mappings, hotkeys>>

\* lines 341-358: return False when already monitoring; otherwise update
\* the mappings, clear the event, start the thread, set the flag, return
\* True; the lock is released on the way out
StartBody ==
    /\ hkPc = "start_body"
    /\ IF is_monitoring
       THEN /\ hk_result' = "start_false"
            /\ UNCHANGED <<is_monitoring, monitor_stop_event,
                           monitoring_thread, hotkey_mappings>>
       ELSE /\ hotkey_mappings' = hotkeys
            /\ monitor_stop_event' = FALSE
            /\ monitoring_thread' = "alive"
            /\ is_monitoring' = TRUE
            /\ hk_result' = "start_true"
    /\ monitoring_lock' = FALSE
    /\ hkPc' = hkRet
    /\ hkRet' = "idle"
    /\ UNCHANGED <<was_monitoring, current_mappings, hotkeys>>

\* main.py:380: stop_monitoring()
CallStopMonitoring ==
    /\ hkPc = "idle"
    /\ hkPc' = "stop_acquire"
    /\ hkRet' = "idle"
    /\ hk_result' = "none"
    /\ UNCHANGED <<monitoring_lock, is_monitoring, was_monitoring,
                   monitor_stop_event, monitoring_thread, hotkey_mappings,
                   current_mappings, hotkeys>>

\* line 367: with self._monitoring_lock
StopAcquire ==
    /\ hkPc = "stop_acquire"
    /\ CanAcquire(monitoring_lock)
    /\ monitoring_lock' = TRUE
    /\ hkPc' = "stop_body"
    /\ UNCHANGED <<hkRet, hk_result, is_monitoring, was_monitoring,
                   monitor_stop_event, monitoring_thread, hotkey_mappings,
                   current_mappings, hotkeys>>

\* lines 368-375: return True when not monitoring; otherwise set the event
\* and join the thread if it is alive
StopBody ==
    /\ hkPc = "stop_body"
    /\ IF ~is_monitoring
       THEN /\ hk_result' = "stop_true"
            /\ monitoring_lock' = FALSE
            /\ hkPc' = hkRet
            /\ hkRet' = "idle"
            /\ UNCHANGED <<monitor_stop_event>>
       ELSE /\ monitor_stop_event' = TRUE
            /\ hkPc' = "stop_join"
            /\ UNCHANGED <<hkRet, hk_result, monitoring_lock>>
    /\ UNCHANGED <<is_monitoring, was_monitoring, monitoring_thread,
                   hotkey_mappings, current_mappings, hotkeys>>

\* lines 375-391: join(timeout=2.0) returns when the thread has exited or
\* when the timeout has passed; the flag is cleared and True is returned
\* in both cases
StopJoin ==
    /\ hkPc = "stop_join"
    /\ is_monitoring' = FALSE
    /\ hk_result' = "stop_true"
    /\ monitoring_lock' = FALSE
    /\ hkPc' = hkRet
    /\ hkRet' = "idle"
    /\ UNCHANGED <<was_monitoring, monitor_stop_event, monitoring_thread,
                   hotkey_mappings, current_mappings, hotkeys>>

\* lines 402-415: an iteration of _monitoring_loop copies the mappings
MonitorLoop ==
    /\ monitoring_thread = "alive"
    /\ ~monitor_stop_event
    /\ current_mappings' = hotkey_mappings
    /\ UNCHANGED <<hkPc, hkRet, hk_result, monitoring_lock, is_monitoring,
                   was_monitoring, monitor_stop_event, monitoring_thread,
                   hotkey_mappings, hotkeys>>

\* line 402: the loop ends when the event is set
MonitorExit ==
    /\ monitoring_thread = "alive"
    /\ monitor_stop_event
    /\ monitoring_thread' = "exited"
    /\ UNCHANGED <<hkPc, hkRet, hk_result, monitoring_lock, is_monitoring,
                   was_monitoring, monitor_stop_event, hotkey_mappings,
                   current_mappings, hotkeys>>

\* main_window.py:767: reload_configuration()
CallReloadConfiguration ==
    /\ hkPc = "idle"
    /\ hkPc' = "rl_acquire"
    /\ hkRet' = "idle"
    /\ hk_result' = "none"
    /\ UNCHANGED <<monitoring_lock, is_monitoring, was_monitoring,
                   monitor_stop_event, monitoring_thread, hotkey_mappings,
                   current_mappings, hotkeys>>

\* lines 532-536: take the lock, read the flag, call stop_monitoring when
\* it is set
ReloadAcquire ==
    /\ hkPc = "rl_acquire"
    /\ CanAcquire(monitoring_lock)
    /\ monitoring_lock' = TRUE
    /\ was_monitoring' = is_monitoring
    /\ IF is_monitoring
       THEN hkPc' = "stop_acquire" /\ hkRet' = "rl_update"
       ELSE hkPc' = "rl_update" /\ hkRet' = hkRet
    /\ UNCHANGED <<hk_result, is_monitoring, monitor_stop_event,
                   monitoring_thread, hotkey_mappings, current_mappings,
                   hotkeys>>

\* lines 538-541: update the mappings, call start_monitoring when
\* monitoring was active
ReloadUpdate ==
    /\ hkPc = "rl_update"
    /\ hotkey_mappings' = hotkeys
    /\ IF was_monitoring
       THEN hkPc' = "start_acquire" /\ hkRet' = "rl_done"
       ELSE hkPc' = "rl_done" /\ hkRet' = hkRet
    /\ UNCHANGED <<hk_result, monitoring_lock, is_monitoring, was_monitoring,
                   monitor_stop_event, monitoring_thread, current_mappings,
                   hotkeys>>

\* lines 541-543: the lock is released and the call returns
ReloadDone ==
    /\ hkPc = "rl_done"
    /\ monitoring_lock' = FALSE
    /\ hk_result' = "reloaded"
    /\ hkPc' = "idle"
    /\ UNCHANGED <<hkRet, is_monitoring, was_monitoring, monitor_stop_event,
                   monitoring_thread, hotkey_mappings, current_mappings,
                   hotkeys>>

\* a step of the calling thread inside a call
HotkeyStep ==
    \/ StartAcquire
    \/ StartBody
    \/ StopAcquire
    \/ StopBody
    \/ StopJoin
    \/ ReloadAcquire
    \/ ReloadUpdate
    \/ ReloadDone

HotkeyNext ==
    \/ EditHotkeys
    \/ CallStartMonitoring
    \/ CallStopMonitoring
    \/ CallReloadConfiguration
    \/ HotkeyStep
    \/ MonitorLoop
    \/ MonitorExit

(***************************************************************************)
(* All variables, and the state of the parts a specification leaves idle.  *)
(***************************************************************************)
auxVars == <<ammoVars, sleepVars, calcVars, carryVars, configVars, overlayVars, timingVars, snapVars, hotkeyVars>>

vars == <<subVars, engineVars, auxVars>>

AuxIdle == AmmoInit /\ SleepIdle /\ CalcIdle /\ CarryInit /\ ConfigInit /\ OverlayInit /\ TimingIdle /\ SnapInit /\ HotkeyInit

\* a thread that has not been started or has terminated
\* pc, weapon, i, completed: position and locals of the thread;
\* sig: "pending" once a weapon change was signalled after the thread read
\*      its weapon, "lost" once a tick check passed in spite of it;
\* intr: why the last sequence was interrupted, until the trigger is pressed
\*      again ("release") or the stop request is withdrawn ("stop");
\* held: a pattern was completed during the current hold of the trigger,
\*      with no stop requested and no weapon change signalled since
DeadSession == [pc |-> "none", weapon |-> NoWeapon, i |-> 0,
                completed |-> FALSE,
                sig |-> "none", intr |-> "none", held |-> FALSE]

\* pc: position; stk: labels to return to; w: weapon_name argument;
\* jt: thread being joined; res: result of the call that returned last;
\* snap: player_state argument
IdleCaller == [pc |-> "idle", stk |-> <<>>, w |-> NoWeapon, jt |-> 0,
               res |-> "none", snap |-> NoSnapshot]

NoReturn == [c |-> "-", op |-> "none", res |-> "none"]

\* no status event
NoStatus == [active |-> FALSE, current_weapon |-> "-",
             manual_activation_allowed |-> FALSE]

InitDetectionState == [current_weapon |-> NoWeapon,
                       rcs_was_auto_enabled |-> FALSE]

IsAlive(t) == t # 0 /\ sessions[t].pc # "none"

EngineInit ==
    /\ active = FALSE
    /\ current_weapon = NoWeapon
    /\ running_thread = 0
    /\ stop_event = FALSE
    /\ weapon_change_event = FALSE
    /\ weapon_lock = Free
    /\ jitterSet = {}
    /\ trigger = FALSE
    /\ sessions = [t \in Sessions |-> DeadSession]
    /\ callers = [c \in Callers |-> IdleCaller]
    /\ enabled = FALSE
    /\ detection_state = InitDetectionState
    /\ graceElapsed = FALSE
    /\ owner = "none"
    /\ moved = 0
    /\ returned = NoReturn
    /\ status_event = NoStatus

\* the part of the state an action of a session thread never writes
SessionFrame ==
    UNCHANGED <<active, current_weapon, running_thread, stop_event,
                jitterSet, trigger, callers, enabled, detection_state,
                graceElapsed, owner>>

(***************************************************************************)
(* RecoilService._compensation_loop, run by session thread t.              *)
(***************************************************************************)
\* line 267: while not self.stop_event.is_set()
LoopTop(t) ==
    /\ sessions[t].pc = "loop_top"
    /\ sessions' = [sessions EXCEPT ![t] =
            IF stop_event THEN DeadSession ELSE [@ EXCEPT !.pc = "gw_acq"]]
    /\ UNCHANGED <<weapon_change_event, weapon_lock>>
    /\ SessionFrame

\* lines 269, 102: get_current_weapon acquires weapon_lock
GetWeaponAcquire(t) ==
    /\ sessions[t].pc = "gw_acq"
    /\ weapon_lock = Free
    /\ weapon_lock' = SLock(t)
    /\ sessions' = [sessions EXCEPT ![t].pc = "gw_read"]
    /\ UNCHANGED <<weapon_change_event>>
    /\ SessionFrame

\* lines 103-105, 270-277: read the current weapon, release the lock;
\* no weapon: break out of the loop (the thread ends, active is not touched)
GetWeaponRead(t) ==
    /\ sessions[t].pc = "gw_read"
    /\ weapon_lock = SLock(t)
    /\ weapon_lock' = Free
    /\ sessions' = [sessions EXCEPT ![t] =
            IF current_weapon \notin Weapons THEN DeadSession
            ELSE [@ EXCEPT !.pc = "clear_wc", !.weapon = current_weapon,
                           !.sig = "none"]]
    /\ UNCHANGED <<weapon_change_event>>
    /\ SessionFrame

\* line 284: self.weapon_change_event.clear()
ClearWeaponChange(t) ==
    /\ sessions[t].pc = "clear_wc"
    /\ weapon_change_event' = FALSE
    /\ sessions' = [sessions EXCEPT ![t].pc = "key_check"]
    /\ UNCHANGED <<weapon_lock>>
    /\ SessionFrame

\* the next iteration of the while loop, after the 1 ms sleep of line 307
NextIteration(s) == [s EXCEPT !.pc = "loop_top", !.weapon = NoWeapon, !.i = 0,
                              !.completed = FALSE]

\* lines 286-290, 317-344: poll the trigger; when pressed enter
\* _execute_compensation_sequence, which reads weapon.jitter_movement
\* (AttributeError when the profile has none: caught at line 304)
KeyCheck(t) ==
    /\ sessions[t].pc = "key_check"
    /\ sessions' = [sessions EXCEPT ![t] =
            IF ~trigger THEN NextIteration(@)
            ELSE IF sessions[t].weapon \notin jitterSet
                 THEN NextIteration(@)
                 ELSE [@ EXCEPT !.pc = "seq_check", !.i = 0]]
    /\ UNCHANGED <<weapon_change_event, weapon_lock>>
    /\ SessionFrame

\* what the checks at the head of a tick decide (lines 346-353):
\* "changed", "interrupted" or "go"
TickCheckWrong(wc, key, stop) ==
    IF wc THEN "changed"
    ELSE IF ~key THEN "interrupted"
    ELSE "go"
TickCheckNoKey(wc, key, stop) ==
    IF wc THEN "changed"
    ELSE IF stop THEN "interrupted"
    ELSE "go"
TickCheck(wc, key, stop) ==
    IF wc THEN "changed"
    ELSE IF ~key \/ stop THEN "interrupted"
    ELSE "go"

\* lines 346-359, 409-410: the head of a tick.  All points done: the
\* sequence returns True.  Weapon change, trigger released or stop
\* requested: it returns False.  Point 0 only establishes the timing origin.
SeqCheck(t) ==
    /\ sessions[t].pc = "seq_check"
    /\ LET d == TickCheck(weapon_change_event, trigger, stop_event)
       IN  sessions' = [sessions EXCEPT ![t] =
            IF sessions[t].i >= PatLen
            THEN [@ EXCEPT !.pc = "after_seq", !.completed = TRUE,
                           !.held = trigger /\ ~stop_event /\ ~weapon_change_event]
            ELSE IF d = "changed"
            THEN [@ EXCEPT !.pc = "after_seq", !.completed = FALSE,
                           !.intr = IF ~trigger THEN "release"
                                    ELSE IF stop_event THEN "stop" ELSE @]
            ELSE IF d = "interrupted"
            THEN [@ EXCEPT !.pc = "after_seq", !.completed = FALSE,
                           !.intr = IF ~trigger THEN "release" ELSE "stop"]
            ELSE IF sessions[t].i = 0
            THEN [@ EXCEPT !.i = 1,
                           !.sig = IF @ = "pending" THEN "lost" ELSE @]
            ELSE [@ EXCEPT !.pc = "seq_move",
                           !.sig = IF @ = "pending" THEN "lost" ELSE @]]
    /\ UNCHANGED <<weapon_change_event, weapon_lock>>
    /\ SessionFrame

\* lines 364-407: move the cursor by the integer part of the running sums
\* (mouse_move is called when the delta is non-zero), then sleep until the
\* point's scheduled time
SeqMove(t) ==
    /\ sessions[t].pc = "seq_move"
    /\ \E nonzero \in BOOLEAN : moved' = IF nonzero THEN t ELSE 0
    /\ sessions' = [sessions EXCEPT ![t] =
            [@ EXCEPT !.pc = "seq_check", !.i = @ + 1]]
    /\ UNCHANGED <<weapon_change_event, weapon_lock>>
    /\ SessionFrame

\* lines 292-295, 301-307: after the sequence returned
AfterSequence(t) ==
    /\ sessions[t].pc = "after_seq"
    /\ sessions' = [sessions EXCEPT ![t] =
            IF sessions[t].completed
            THEN [@ EXCEPT !.pc = "hold_wait", !.completed = FALSE, !.i = 0]
            ELSE NextIteration(@)]
    /\ UNCHANGED <<weapon_change_event, weapon_lock>>
    /\ SessionFrame

\* the condition of the while loop of lines 296-298
HoldsWrong(key, stop, wc) == FALSE
Holds(key, stop, wc) == key /\ ~stop /\ ~wc

\* lines 296-307: after a completed pattern poll until the trigger is
\* released, then go to the next iteration
HoldWait(t) ==
    /\ sessions[t].pc = "hold_wait"
    /\ ~Holds(trigger, stop_event, weapon_change_event)
    /\ sessions' = [sessions EXCEPT ![t] = NextIteration(@)]
    /\ UNCHANGED <<weapon_change_event, weapon_lock>>
    /\ SessionFrame

\* the steps of a thread that waits for the trigger
PollStep(t) ==
    \/ LoopTop(t)
    \/ GetWeaponAcquire(t)
    \/ GetWeaponRead(t)
    \/ ClearWeaponChange(t)
    \/ KeyCheck(t)

\* the steps of a thread that plays a sequence, but for SeqMove
PlayStep(t) ==
    \/ SeqCheck(t)
    \/ AfterSequence(t)
    \/ HoldWait(t)

(***************************************************************************)
(* Calls into RecoilService made by caller thread c.  A call pushes the    *)
(* label it returns to; Return pops it.                                    *)
(***************************************************************************)
StackHas(c, label) == \E k \in 1..Len(callers[c].stk) : callers[c].stk[k] = label

\* start_compensation was called with allow_manual_when_auto_enabled=True
\* (weapon_detection_service.py:207)
AllowManual(c) == StackHas(c, "pp_started")

\* stop_compensation was called by the detection service
\* (weapon_detection_service.py:111, 216)
CalledByDetection(c) == StackHas(c, "pp_stopped") \/ StackHas(c, "dis_reset")

Returning(c, r) ==
    LET k == Head(callers[c].stk)
    IN  IF k = "idle" THEN IdleCaller
        ELSE [callers[c] EXCEPT !.pc = k, !.stk = Tail(@), !.res = r, !.jt = 0]

Return(c, op, r) ==
    /\ callers' = [callers EXCEPT ![c] = Returning(c, r)]
    /\ returned' = [c |-> c, op |-> op, res |-> r] /\ status_event' = NoStatus

\* lines 239-251, 203-212: _notify_status_changed passes the status to
\* every callback; here it is the last statement before the return
NotifyReturn(c, op, r, act, cw) ==
    /\ callers' = [callers EXCEPT ![c] = Returning(c, r)]
    /\ returned' = [c |-> c, op |-> op, res |-> r]
    /\ status_event' = [active |-> act, current_weapon |-> cw,
                        manual_activation_allowed |-> ~enabled]

Goto(c, label) ==
    /\ callers' = [callers EXCEPT ![c].pc = label]
    /\ returned' = NoReturn /\ status_event' = NoStatus

Call(c, entry, label) ==
    /\ callers' = [callers EXCEPT ![c].pc = entry, ![c].stk = <<label>> \o @]
    /\ returned' = NoReturn /\ status_event' = NoStatus

\* ---- start_compensation -------------------------------------------------
\* lines 112-124, 205-214: rejected when already active, when no weapon is
\* selected, or when a manual start is blocked by the enabled detection
StartRejectedWrong(act, cw, blocked, allow) ==
    \/ (cw = NoWeapon /\ ~blocked)
    \/ (~allow /\ blocked)
StartRejectedUnblocked(act, cw, blocked, allow) ==
    \/ act
    \/ (cw = NoWeapon /\ ~blocked)
StartRejected(act, cw, blocked, allow) ==
    \/ act
    \/ (cw = NoWeapon /\ ~blocked)
    \/ (~allow /\ blocked)

StartCheck(c) ==
    /\ callers[c].pc = "st_check"
    /\ IF StartRejected(active, current_weapon, enabled, AllowManual(c))
       THEN Return(c, "start", "fail")
       ELSE Goto(c, "st_begin")
    /\ UNCHANGED <<active, current_weapon, running_thread, stop_event,
                   weapon_change_event, weapon_lock, jitterSet, trigger,
                   sessions, enabled, detection_state, graceElapsed, owner>>

\* the thread objects of pool that are neither running nor being joined
FreeSessions(pool) ==
    {t \in pool : /\ sessions[t].pc = "none"
                  /\ \A c \in Callers : callers[c].jt # t}

\* lines 127-157: set active, clear both events, create and start the
\* thread, notify the observers, return True
StartBegin(c, pool) ==
    /\ callers[c].pc = "st_begin"
    /\ FreeSessions(pool) # {}
    /\ active' = TRUE
    /\ owner' = IF AllowManual(c) THEN "auto" ELSE "manual"
    /\ LET free == FreeSessions(pool)
           t == CHOOSE x \in free : \A y \in free : x <= y
       IN  /\ sessions' = [u \in Sessions |->
                  IF u = t THEN [DeadSession EXCEPT !.pc = "loop_top"]
                  ELSE [sessions[u] EXCEPT !.intr = IF @ = "stop" THEN "none" ELSE @]]
           /\ running_thread' = t
    /\ stop_event' = FALSE
    /\ weapon_change_event' = FALSE
    /\ NotifyReturn(c, "start", "ok", TRUE, current_weapon)
    /\ UNCHANGED <<current_weapon, weapon_lock, jitterSet, trigger,
                   enabled, detection_state, graceElapsed>>

\* ---- stop_compensation --------------------------------------------------
\* lines 166-171, 183-195: nothing to do when not active; otherwise set the
\* stop event and join the thread if it is alive; with no live thread mark
\* the engine inactive, notify and return True
NothingToStopWrong(act) == FALSE
NothingToStop(act) == ~act

StopCheck(c) ==
    /\ callers[c].pc = "sp_check"
    /\ IF NothingToStop(active)
       THEN /\ Return(c, "stop", "ok")
            /\ UNCHANGED <<active, owner, stop_event, sessions>>
       ELSE /\ stop_event' = TRUE
            /\ sessions' = [u \in Sessions |-> [sessions[u] EXCEPT !.held = FALSE]]
            /\ IF IsAlive(running_thread)
               THEN /\ callers' = [callers EXCEPT ![c].pc = "sp_join",
                                                  ![c].jt = running_thread]
                    /\ returned' = NoReturn /\ status_event' = NoStatus
                    /\ UNCHANGED <<active, owner>>
               ELSE /\ active' = FALSE
                    /\ owner' = "none"
                    /\ NotifyReturn(c, "stop", "ok", FALSE, current_weapon)
    /\ UNCHANGED <<current_weapon, running_thread, weapon_change_event,
                   weapon_lock, jitterSet, trigger, enabled, detection_state,
                   graceElapsed>>

\* lines 175-195: after join returned the engine is marked inactive; the
\* result is False when the thread is still alive, and then the callbacks
\* are not notified
JoinResultWrong(alive) == "ok"
JoinResult(alive) == IF alive THEN "fail" ELSE "ok"

AfterJoin(c) ==
    /\ active' = FALSE
    /\ owner' = "none"
    /\ IF JoinResult(IsAlive(running_thread)) = "ok"
       THEN NotifyReturn(c, "stop", "ok", FALSE, current_weapon)
       ELSE Return(c, "stop", "fail")

\* line 172: join returns because the thread has terminated
StopJoinDone(c) ==
    /\ callers[c].pc = "sp_join"
    /\ ~IsAlive(callers[c].jt)
    /\ AfterJoin(c)
    /\ UNCHANGED <<current_weapon, running_thread, stop_event,
                   weapon_change_event, weapon_lock, jitterSet, trigger,
                   sessions, enabled, detection_state, graceElapsed>>

\* line 172: join returns because the 3 s timeout elapsed
StopJoinTimeout(c) ==
    /\ callers[c].pc = "sp_join"
    /\ IsAlive(callers[c].jt)
    /\ AfterJoin(c)
    /\ UNCHANGED <<current_weapon, running_thread, stop_event,
                   weapon_change_event, weapon_lock, jitterSet, trigger,
                   sessions, enabled, detection_state, graceElapsed>>

\* ---- set_weapon ---------------------------------------------------------
\* line 67: with self.weapon_lock
SetWeaponAcquire(c) ==
    /\ callers[c].pc = "sw_acq"
    /\ weapon_lock = Free
    /\ weapon_lock' = CLock(c)
    /\ Goto(c, "sw_body")
    /\ UNCHANGED <<active, current_weapon, running_thread, stop_event,
                   weapon_change_event, jitterSet, trigger, sessions,
                   enabled, detection_state, graceElapsed,
                   owner>>

\* the lock is released when the with block is left
LockAfterBodyWrong(c, needs_stop) == IF needs_stop THEN CLock(c) ELSE Free
LockAfterBody(c, needs_stop) == Free

\* line 69: the name is given and no profile of that name is loaded
WeaponNotFoundWrong(weapon_name) == FALSE
WeaponNotFound(weapon_name) ==
    weapon_name # NoWeapon /\ weapon_name \notin Weapons

\* lines 68-98: the body under the lock, and for a change that needs no
\* stop the notification and the return
SetWeaponBody(c) ==
    /\ callers[c].pc = "sw_body"
    /\ weapon_lock = CLock(c)
    /\ LET w == callers[c].w
           needs_stop == active /\ w = NoWeapon
           needs_signal == active /\ w # NoWeapon
       IN  IF WeaponNotFound(w)
           THEN /\ Return(c, "set_weapon", "fail")
                /\ weapon_lock' = Free
                /\ UNCHANGED <<current_weapon, weapon_change_event, sessions>>
           ELSE IF current_weapon = w
           THEN /\ Return(c, "set_weapon", "ok")
                /\ weapon_lock' = Free
                /\ UNCHANGED <<current_weapon, weapon_change_event, sessions>>
           ELSE /\ current_weapon' = w
                /\ weapon_change_event' = (weapon_change_event \/ needs_signal)
                /\ weapon_lock' = LockAfterBody(c, needs_stop)
                /\ sessions' = [u \in Sessions |->
                       IF needs_signal /\ sessions[u].pc # "none"
                       THEN [sessions[u] EXCEPT
                                !.held = FALSE,
                                !.sig = IF sessions[u].weapon \notin {w, NoWeapon}
                                           /\ @ = "none"
                                        THEN "pending" ELSE @]
                       ELSE sessions[u]]
                /\ IF needs_stop
                   THEN Call(c, "sp_check", "sw_after_stop")
                   ELSE NotifyReturn(c, "set_weapon", "ok", active, w)
    /\ UNCHANGED <<active, running_thread, stop_event, jitterSet, trigger,
                   enabled, detection_state, graceElapsed,
                   owner>>

\* lines 92-98: stop_compensation has returned; notify and return True
SetWeaponAfterStop(c) ==
    /\ callers[c].pc = "sw_after_stop"
    /\ NotifyReturn(c, "set_weapon", "ok", active, current_weapon)
    /\ UNCHANGED <<active, current_weapon, running_thread, stop_event,
                   weapon_change_event, weapon_lock, jitterSet, trigger,
                   sessions, enabled, detection_state, graceElapsed, owner>>

RecoilServiceStep(c, pool) ==
    \/ StartCheck(c)
    \/ StartBegin(c, pool)
    \/ StopCheck(c)
    \/ StopJoinDone(c)
    \/ StopJoinTimeout(c)
    \/ SetWeaponAcquire(c)
    \/ SetWeaponBody(c)
    \/ SetWeaponAfterStop(c)

(***************************************************************************)
(* Requests of the operator: GUI buttons and hotkeys (main_window.py,      *)
(* main.py).                                                               *)
(***************************************************************************)
ServiceFrame ==
    UNCHANGED <<active, current_weapon, running_thread, stop_event,
                weapon_change_event, weapon_lock, jitterSet, trigger,
                sessions, enabled, detection_state, graceElapsed, owner>>

\* main_window.py:432, main.py:248: start_compensation()
ManualStart(c) ==
    /\ c \in ManualCallers
    /\ callers[c].pc = "idle"
    /\ Call(c, "st_check", "idle")
    /\ ServiceFrame

\* main_window.py:449, main.py:231: stop_compensation()
ManualStop(c) ==
    /\ c \in ManualCallers
    /\ callers[c].pc = "idle"
    /\ Call(c, "sp_check", "idle")
    /\ ServiceFrame

\* main_window.py:393, main.py:299: set_weapon(weapon_name)
ManualSetWeapon(c, w) ==
    /\ c \in ManualCallers
    /\ callers[c].pc = "idle"
    /\ callers' = [callers EXCEPT ![c].pc = "sw_acq", ![c].stk = <<"idle">>,
                                  ![c].w = w]
    /\ returned' = NoReturn /\ status_event' = NoStatus
    /\ ServiceFrame

\* config_tab.py:750-767: saving a weapon's parameters gives the profile
\* its jitter_timing and jitter_movement attributes
SaveWeaponConfig(c, w) ==
    /\ c \in ManualCallers
    /\ callers[c].pc = "idle"
    /\ w \notin jitterSet
    /\ jitterSet' = jitterSet \cup {w}
    /\ returned' = NoReturn /\ status_event' = NoStatus
    /\ UNCHANGED <<active, current_weapon, running_thread, stop_event,
                   weapon_change_event, weapon_lock, trigger, sessions,
                   callers, enabled, detection_state, graceElapsed, owner>>

(***************************************************************************)
(* WeaponDetectionService.                                                 *)
(***************************************************************************)
\* WeaponDetectionState.reset
Reset(ds) == [ds EXCEPT !.current_weapon = NoWeapon,
                        !.rcs_was_auto_enabled = FALSE]

\* WeaponDetectionState.update_weapon
UpdateWeapon(ds, weapon_name) ==
    IF weapon_name # ds.current_weapon
    THEN [ds EXCEPT !.current_weapon = weapon_name]
    ELSE ds

\* lines 154-159: the target weapon of a snapshot
TargetWeapon(snap) == IF snap.should THEN snap.pattern ELSE NoWeapon

\* lines 85-95: enable
Enable(c) ==
    /\ c \in ManualCallers
    /\ callers[c].pc = "idle"
    /\ ~enabled
    /\ enabled' = TRUE
    /\ detection_state' = Reset(detection_state)
    /\ returned' = [c |-> c, op |-> "enable", res |-> "ok"] /\ status_event' = NoStatus
    /\ UNCHANGED <<active, current_weapon, running_thread, stop_event,
                   weapon_change_event, weapon_lock, jitterSet, trigger,
                   sessions, callers, graceElapsed, owner>>

\* lines 103-111: disable; stops a session the service started itself
DisableBegin(c) ==
    /\ c \in ManualCallers
    /\ callers[c].pc = "idle"
    /\ enabled
    /\ enabled' = FALSE
    /\ IF detection_state.rcs_was_auto_enabled /\ active
       THEN Call(c, "sp_check", "dis_reset")
       ELSE Goto(c, "dis_reset")
    /\ UNCHANGED <<active, current_weapon, running_thread, stop_event,
                   weapon_change_event, weapon_lock, jitterSet, trigger,
                   sessions, detection_state, graceElapsed,
                   owner>>

\* lines 112-117: clear the flag, reset the state, return True
DisableReset(c) ==
    /\ callers[c].pc = "dis_reset"
    /\ detection_state' = Reset(detection_state)
    /\ callers' = [callers EXCEPT ![c] = IdleCaller]
    /\ returned' = [c |-> c, op |-> "disable", res |-> "ok"] /\ status_event' = NoStatus
    /\ UNCHANGED <<active, current_weapon, running_thread, stop_event,
                   weapon_change_event, weapon_lock, jitterSet, trigger,
                   sessions, enabled, graceElapsed, owner>>

\* lines 131-143: a snapshot is accepted when the service is enabled and
\* min_transition_delay has passed since the last accepted one (time is
\* not modelled: the delay may have passed at any moment)
ProcessEnter(c, snap) ==
    /\ c \in SnapshotCallers
    /\ callers[c].pc = "idle"
    /\ enabled
    /\ callers' = [callers EXCEPT ![c].pc = "pp_weapon", ![c].snap = snap]
    /\ returned' = NoReturn /\ status_event' = NoStatus
    /\ UNCHANGED <<active, current_weapon, running_thread, stop_event,
                   weapon_change_event, weapon_lock, jitterSet, trigger,
                   sessions, enabled, detection_state, graceElapsed, owner>>

\* lines 152-189: _process_weapon_changes and _handle_weapon_change; a
\* change to a non-null weapon is passed to set_weapon
ProcessWeaponChanges(c) ==
    /\ callers[c].pc = "pp_weapon"
    /\ LET target == TargetWeapon(callers[c].snap)
           changed == target # detection_state.current_weapon
       IN  /\ detection_state' = UpdateWeapon(detection_state, target)
           /\ IF changed /\ target # NoWeapon
              THEN /\ callers' = [callers EXCEPT ![c].pc = "sw_acq",
                                      ![c].stk = <<"pp_rcs">>, ![c].w = target]
                   /\ returned' = NoReturn /\ status_event' = NoStatus
              ELSE Goto(c, "pp_rcs")
    /\ UNCHANGED <<active, current_weapon, running_thread, stop_event,
                   weapon_change_event, weapon_lock, jitterSet, trigger,
                   sessions, enabled, graceElapsed, owner>>

\* the rest of process_player_state after _process_rcs_control
ProcessFinish(c) ==
    /\ callers' = [callers EXCEPT ![c] = IdleCaller]
    /\ returned' = [c |-> c, op |-> "process", res |-> "ok"] /\ status_event' = NoStatus

\* lines 214-215: the condition under which _process_rcs_control stops
\* the engine
ShouldAutoStopWrong(should_enable_rcs, rcs_currently_active, flag) ==
    ~should_enable_rcs /\ rcs_currently_active
ShouldAutoStop(should_enable_rcs, rcs_currently_active, flag) ==
    ~should_enable_rcs /\ rcs_currently_active /\ flag

\* lines 191-216: _process_rcs_control up to the call it makes
ProcessRcsControl(c) ==
    /\ callers[c].pc = "pp_rcs"
    /\ LET should_enable_rcs == callers[c].snap.should
           rcs_currently_active == active
       IN  IF ~graceElapsed THEN ProcessFinish(c)
           ELSE IF should_enable_rcs /\ ~rcs_currently_active
           THEN IF detection_state.current_weapon # NoWeapon
                THEN /\ callers' = [callers EXCEPT ![c].pc = "st_check",
                                        ![c].stk = <<"pp_started">>]
                     /\ returned' = NoReturn /\ status_event' = NoStatus
                ELSE ProcessFinish(c)
           ELSE IF ShouldAutoStop(should_enable_rcs, rcs_currently_active,
                                  detection_state.rcs_was_auto_enabled)
           THEN /\ callers' = [callers EXCEPT ![c].pc = "sp_check",
                                   ![c].stk = <<"pp_stopped">>]
                /\ returned' = NoReturn /\ status_event' = NoStatus
           ELSE ProcessFinish(c)
    /\ ServiceFrame

\* lines 209-212: start_compensation returned
ProcessStarted(c) ==
    /\ callers[c].pc = "pp_started"
    /\ detection_state' =
          IF callers[c].res = "ok"
          THEN [detection_state EXCEPT !.rcs_was_auto_enabled = TRUE]
          ELSE detection_state
    /\ ProcessFinish(c)
    /\ UNCHANGED <<active, current_weapon, running_thread, stop_event,
                   weapon_change_event, weapon_lock, jitterSet, trigger,
                   sessions, enabled, graceElapsed, owner>>

\* lines 217-220: stop_compensation returned
ProcessStopped(c) ==
    /\ callers[c].pc = "pp_stopped"
    /\ detection_state' =
          IF callers[c].res = "ok"
          THEN [detection_state EXCEPT !.rcs_was_auto_enabled = FALSE]
          ELSE detection_state
    /\ ProcessFinish(c)
    /\ UNCHANGED <<active, current_weapon, running_thread, stop_event,
                   weapon_change_event, weapon_lock, jitterSet, trigger,
                   sessions, enabled, graceElapsed, owner>>

DetectionStep(c) ==
    \/ DisableReset(c)
    \/ ProcessWeaponChanges(c)
    \/ ProcessRcsControl(c)
    \/ ProcessStarted(c)
    \/ ProcessStopped(c)

(***************************************************************************)
(* Environment: the trigger and the passing of time.                       *)
(***************************************************************************)
EnvFrame ==
    /\ returned' = NoReturn /\ status_event' = NoStatus
    /\ UNCHANGED <<active, current_weapon, running_thread, stop_event,
                   weapon_change_event, weapon_lock, jitterSet, callers,
                   enabled, detection_state, owner>>

PressTrigger ==
    /\ ~trigger
    /\ trigger' = TRUE
    /\ sessions' = [u \in Sessions |->
            [sessions[u] EXCEPT !.intr = IF @ = "release" THEN "none" ELSE @]]
    /\ UNCHANGED <<graceElapsed>>
    /\ EnvFrame

ReleaseTrigger ==
    /\ trigger
    /\ trigger' = FALSE
    /\ sessions' = [u \in Sessions |-> [sessions[u] EXCEPT !.held = FALSE]]
    /\ UNCHANGED <<graceElapsed>>
    /\ EnvFrame

\* 2 * STARTUP_GRACE_PERIOD has passed since startup_time
GracePeriodPasses ==
    /\ ~graceElapsed
    /\ graceElapsed' = TRUE
    /\ UNCHANGED <<trigger, sessions>>
    /\ EnvFrame

\* the subdivider is idle while the engine runs, and the reverse
SubIdle ==
    /\ subPc = "done"
    /\ subPattern = <<>>
    /\ subMultiple = 1
    /\ subLength = 1
    /\ subI = 0
    /\ subResult = <<>>
    /\ subFloor = <<>>
    /\ subSumX = 0 /\ subSumY = 0
    /\ subSumXOrig = 0 /\ subSumYOrig = 0
    /\ subGapX = 0 /\ subGapY = 0

Init == EngineInit /\ SubIdle /\ AuxIdle

(***************************************************************************)
(* Spec: the operator, one GSI worker and the weapon detection service     *)
(* drive the engine; the trigger is never pressed, so the session thread   *)
(* only polls; one thread object.                                          *)
(***************************************************************************)
EngineNext ==
    \/ \E t \in Sessions : PollStep(t) /\ moved' = 0 /\ returned' = NoReturn /\ status_event' = NoStatus
    \/ \E c \in OneWorker : RecoilServiceStep(c, {1}) /\ moved' = 0
    \/ \E c \in OneWorker : DetectionStep(c) /\ moved' = 0
    \/ \E c \in OneWorker : ManualStart(c) /\ moved' = 0
    \/ \E c \in OneWorker : ManualStop(c) /\ moved' = 0
    \/ \E c \in OneWorker, w \in Weapons \cup {NoWeapon, UnknownWeapon} :
            ManualSetWeapon(c, w) /\ moved' = 0
    \/ \E c \in OneWorker : Enable(c) /\ moved' = 0
    \/ \E c \in OneWorker : DisableBegin(c) /\ moved' = 0
    \/ \E c \in OneWorker, snap \in Snapshots : ProcessEnter(c, snap) /\ moved' = 0
    \/ GracePeriodPasses /\ moved' = 0

Next == EngineNext /\ UNCHANGED <<subVars, auxVars>>

Spec == Init /\ [][Next]_vars

(***************************************************************************)
(* SpecSerial: as Spec, with the requests of the operator and the          *)
(* snapshots delivered one after the other: a call is made when no other   *)
(* caller is inside one.  The session thread runs concurrently.            *)
(***************************************************************************)
Serialized ==
    \A c \in Callers, d \in Callers :
        c # d => (callers[c].pc = "idle" \/ callers[d].pc = "idle")

SerialNext == EngineNext /\ Serialized'

SpecSerial == Init /\ [][SerialNext /\ UNCHANGED <<subVars, auxVars>>]_vars

(***************************************************************************)
(* SpecDisable: the operator enables and disables weapon detection while   *)
(* one GSI worker delivers snapshots; the operator makes no other request  *)
(* and the trigger is never pressed; one thread object.                    *)
(***************************************************************************)
DisableNext ==
    \/ \E t \in Sessions : PollStep(t) /\ moved' = 0 /\ returned' = NoReturn /\ status_event' = NoStatus
    \/ \E c \in OneWorker : RecoilServiceStep(c, {1}) /\ moved' = 0
    \/ \E c \in OneWorker : DetectionStep(c) /\ moved' = 0
    \/ \E c \in OneWorker : Enable(c) /\ moved' = 0
    \/ \E c \in OneWorker : DisableBegin(c) /\ moved' = 0
    \/ \E c \in OneWorker, snap \in Snapshots : ProcessEnter(c, snap) /\ moved' = 0
    \/ GracePeriodPasses /\ moved' = 0

SpecDisable == Init /\ [][DisableNext /\ UNCHANGED <<subVars, auxVars>>]_vars

(***************************************************************************)
(* SpecSession: the operator alone drives the engine (weapon detection is  *)
(* never enabled), presses and releases the trigger and saves weapon       *)
(* configurations; one thread object.                                      *)
(***************************************************************************)
SessionNext ==
    \/ \E t \in Sessions : SeqMove(t) /\ returned' = NoReturn /\ status_event' = NoStatus
    \/ \E t \in Sessions : PollStep(t) /\ moved' = 0 /\ returned' = NoReturn /\ status_event' = NoStatus
    \/ \E t \in Sessions : PlayStep(t) /\ moved' = 0 /\ returned' = NoReturn /\ status_event' = NoStatus
    \/ \E c \in ManualCallers : RecoilServiceStep(c, {1}) /\ moved' = 0
    \/ \E c \in ManualCallers : ManualStart(c) /\ moved' = 0
    \/ \E c \in ManualCallers : ManualStop(c) /\ moved' = 0
    \/ \E c \in ManualCallers, w \in Weapons \cup {NoWeapon, UnknownWeapon} :
            ManualSetWeapon(c, w) /\ moved' = 0
    \/ \E c \in ManualCallers, w \in Weapons : SaveWeaponConfig(c, w) /\ moved' = 0
    \/ PressTrigger /\ moved' = 0
    \/ ReleaseTrigger /\ moved' = 0

SpecSession == Init /\ [][SessionNext /\ UNCHANGED <<subVars, auxVars>>]_vars

(***************************************************************************)
(* SpecThreads: the operator alone starts and stops the engine and selects *)
(* weapons; the trigger is never pressed; start_compensation may create    *)
(* both thread objects.                                                    *)
(***************************************************************************)
ThreadsNext ==
    \/ \E t \in Sessions : PollStep(t) /\ moved' = 0 /\ returned' = NoReturn /\ status_event' = NoStatus
    \/ \E c \in ManualCallers : RecoilServiceStep(c, Sessions) /\ moved' = 0
    \/ \E c \in ManualCallers : ManualStart(c) /\ moved' = 0
    \/ \E c \in ManualCallers : ManualStop(c) /\ moved' = 0
    \/ \E c \in ManualCallers, w \in Weapons \cup {NoWeapon, UnknownWeapon} :
            ManualSetWeapon(c, w) /\ moved' = 0

SpecThreads == Init /\ [][ThreadsNext /\ UNCHANGED <<subVars, auxVars>>]_vars

(***************************************************************************)
(* SpecWorkers: weapon detection is enabled and both workers of the GSI    *)
(* executor deliver snapshots; the operator makes no other request and the *)
(* trigger is never pressed.                                               *)
(***************************************************************************)
WorkersNext ==
    \/ \E t \in Sessions : PollStep(t) /\ moved' = 0 /\ returned' = NoReturn /\ status_event' = NoStatus
    \/ \E c \in SnapshotCallers : StartCheck(c) /\ moved' = 0
    \/ \E c \in SnapshotCallers : StartBegin(c, {1}) /\ moved' = 0
    \/ \E c \in SnapshotCallers : StopCheck(c) /\ moved' = 0
    \/ \E c \in SnapshotCallers : StopJoinDone(c) /\ moved' = 0
    \/ \E c \in SnapshotCallers : StopJoinTimeout(c) /\ moved' = 0
    \/ \E c \in SnapshotCallers : SetWeaponAcquire(c) /\ moved' = 0
    \/ \E c \in SnapshotCallers : SetWeaponBody(c) /\ moved' = 0
    \/ \E c \in SnapshotCallers : ProcessWeaponChanges(c) /\ moved' = 0
    \/ \E c \in SnapshotCallers : ProcessRcsControl(c) /\ moved' = 0
    \/ \E c \in SnapshotCallers : ProcessStarted(c) /\ moved' = 0
    \/ \E c \in SnapshotCallers : ProcessStopped(c) /\ moved' = 0
    \/ \E c \in ManualCallers : Enable(c) /\ moved' = 0
    \/ \E c \in SnapshotCallers, snap \in Snapshots :
            ProcessEnter(c, snap) /\ moved' = 0
    \/ GracePeriodPasses /\ moved' = 0

SpecWorkers == Init /\ [][WorkersNext /\ UNCHANGED <<subVars, auxVars>>]_vars

(***************************************************************************)
(* SpecAmmo: a stream of snapshots with an active weapon, every magazine   *)
(* content 0..MaxAmmo, goes through the ammunition monitoring.             *)
(***************************************************************************)
SpecAmmo == Init /\ [][AmmoNext /\ UNCHANGED <<subVars, engineVars, sleepVars, calcVars, carryVars, configVars, overlayVars, timingVars, snapVars, hotkeyVars>>]_vars

(***************************************************************************)
(* SpecSleep: with either strategy, a thread makes sequences of            *)
(* sleep_until calls with increasing targets while the clock advances.     *)
(***************************************************************************)
InitSleep == EngineInit /\ SubIdle /\ AmmoInit /\ SleepInit /\ CalcIdle /\ CarryInit /\ ConfigInit /\ OverlayInit /\ TimingIdle /\ SnapInit /\ HotkeyInit

SpecSleep == InitSleep /\ [][SleepNext /\ UNCHANGED <<subVars, engineVars, ammoVars, calcVars, carryVars, configVars, overlayVars, timingVars, snapVars, hotkeyVars>>]_vars

(***************************************************************************)
(* SpecCalc: a profile is constructed, its multiple is changed and its     *)
(* pattern recalculated up to MaxRecalc times, while the session thread    *)
(* reads calculated_pattern at any moment.                                 *)
(***************************************************************************)
InitCalc == SubInit /\ subPattern \in ProfilePatterns /\ EngineInit /\ AuxIdle

SpecCalc == InitCalc /\ [][CalcNext /\ UNCHANGED <<engineVars, ammoVars, sleepVars, carryVars, configVars, overlayVars, timingVars, snapVars, hotkeyVars>>]_vars

(***************************************************************************)
(* SpecCarry: sequences of up to MaxTicks movement ticks with every        *)
(* intended movement of MoveVals on each axis.                             *)
(***************************************************************************)
SpecCarry == Init /\ [][CarryNext /\ UNCHANGED <<subVars, engineVars, ammoVars, sleepVars, calcVars, configVars, overlayVars, timingVars, snapVars, hotkeyVars>>]_vars

(***************************************************************************)
(* SpecConfig: the configuration file is edited and loaded up to MaxLoads  *)
(* times.                                                                  *)
(***************************************************************************)
SpecConfig == Init /\ [][ConfigNext /\ UNCHANGED <<subVars, engineVars, ammoVars, sleepVars, calcVars, carryVars, overlayVars, timingVars, snapVars, hotkeyVars>>]_vars

(***************************************************************************)
(* SpecOverlay: as SpecSession, with an active overlay attached to the     *)
(* service: the session thread reports positions to it.                    *)
(***************************************************************************)
\* lines 286-290, 325-326: the sequence begins by reporting (0.0, 0.0)
OverlayKeyCheck(t) ==
    /\ KeyCheck(t)
    /\ overlay_position' = IF trigger THEN "origin" ELSE overlay_position

\* lines 367-371: a tick reports the accumulated raw recoil
OverlaySeqMove(t) ==
    /\ SeqMove(t)
    /\ overlay_position' = "recoil"

\* lines 292-302: an interrupted sequence with the weapon change event set
\* goes to the next iteration at once (continue); another interrupted
\* sequence reports (0.0, 0.0); a completed one first waits for the release
OverlayAfterSequence(t) ==
    /\ AfterSequence(t)
    /\ overlay_position' =
           IF sessions[t].completed \/ weapon_change_event
           THEN overlay_position ELSE "origin"

\* lines 296-302: the hold after a completed pattern is over
OverlayHoldWait(t) ==
    /\ HoldWait(t)
    /\ overlay_position' = "origin"

OverlayNext ==
    \/ \E t \in Sessions : OverlaySeqMove(t) /\ returned' = NoReturn /\ status_event' = NoStatus
    \/ \E t \in Sessions :
          /\ LoopTop(t) \/ GetWeaponAcquire(t) \/ GetWeaponRead(t)
                \/ ClearWeaponChange(t) \/ SeqCheck(t)
          /\ moved' = 0 /\ returned' = NoReturn /\ status_event' = NoStatus
          /\ UNCHANGED overlay_position
    \/ \E t \in Sessions :
          /\ OverlayKeyCheck(t) \/ OverlayAfterSequence(t) \/ OverlayHoldWait(t)
          /\ moved' = 0 /\ returned' = NoReturn /\ status_event' = NoStatus
    \/ /\ \/ \E c \in ManualCallers : RecoilServiceStep(c, {1})
          \/ \E c \in ManualCallers : ManualStart(c)
          \/ \E c \in ManualCallers : ManualStop(c)
          \/ \E c \in ManualCallers, w \in Weapons \cup {NoWeapon, UnknownWeapon} :
                ManualSetWeapon(c, w)
          \/ \E c \in ManualCallers, w \in Weapons : SaveWeaponConfig(c, w)
          \/ PressTrigger
          \/ ReleaseTrigger
       /\ moved' = 0
       /\ UNCHANGED overlay_position

SpecOverlay == Init /\ [][OverlayNext /\ UNCHANGED <<subVars, ammoVars, sleepVars, calcVars, carryVars, configVars, timingVars, snapVars, hotkeyVars>>]_vars

(***************************************************************************)
(* SpecTiming: a TimingService is constructed with either strategy, the    *)
(* high-resolution timer available or not, and then used.  A thread inside *)
(* the fallback of sleep_until is scheduled, and time.sleep returns.       *)
(***************************************************************************)
InitTiming == EngineInit /\ SubIdle /\ AmmoInit /\ CalcIdle /\ CarryInit /\ ConfigInit /\ OverlayInit /\ TimingNew /\ SnapInit /\ HotkeyInit

TimingFrame == UNCHANGED <<subVars, engineVars, ammoVars, calcVars, carryVars, configVars, overlayVars, snapVars, hotkeyVars>>

SpecTiming ==
    /\ InitTiming
    /\ [][TimingNext /\ TimingFrame]_vars
    /\ WF_vars(TimingFallbackRead /\ TimingFrame)
    /\ WF_vars(TimingFallbackSleep /\ TimingFrame)

(***************************************************************************)
(* SpecSnap: every bounded snapshot is received, built and its target      *)
(* weapon derived.                                                         *)
(***************************************************************************)
SpecSnap == Init /\ [][SnapNext /\ UNCHANGED <<subVars, engineVars, ammoVars, sleepVars, calcVars, carryVars, configVars, overlayVars, timingVars, hotkeyVars>>]_vars

(***************************************************************************)
(* SpecHotkey: one thread starts and stops hotkey monitoring and reloads   *)
(* the hotkey configuration, which changes up to MaxEdits times.  The      *)
(* calling thread and the monitor thread are scheduled: a step that stays  *)
(* possible is taken.                                                      *)
(***************************************************************************)
HotkeyFrame == UNCHANGED <<subVars, engineVars, ammoVars, sleepVars, calcVars, carryVars, configVars, overlayVars, timingVars, snapVars>>

SpecHotkey ==
    /\ Init
    /\ [][HotkeyNext /\ HotkeyFrame]_vars
    /\ WF_vars(HotkeyStep /\ HotkeyFrame)
    /\ WF_vars(MonitorExit /\ HotkeyFrame)

\* subdivide applied to every bounded input, the engine idle
InitSub == SubInit /\ EngineInit /\ AuxIdle

SpecSub == InitSub /\ [][SubNext /\ UNCHANGED <<engineVars, auxVars>>]_vars

(***************************************************************************)
(* Properties of the compensation session (SpecSession).                   *)
(***************************************************************************)
\* thread t took a step of its own
Stepped(t) ==
    \/ sessions'[t].pc # sessions[t].pc
    \/ sessions'[t].i # sessions[t].i

\* C2: while a sequence is playing, a tick check that finds the trigger
\* released or the stop event set ends the sequence as interrupted (it
\* returns False) without starting the tick, and the thread calls
\* mouse_move no more until the trigger is pressed again (after a release)
\* or the stop request is withdrawn by the next start (after a stop).
InterruptedAtNextTick ==
    [][\A t \in Sessions :
        /\ (/\ sessions[t].pc = "seq_check"
            /\ sessions[t].i < PatLen
            /\ (~trigger \/ stop_event)
            /\ Stepped(t))
           => (/\ sessions'[t].pc = "after_seq"
               /\ ~sessions'[t].completed
               /\ sessions'[t].intr # "none"
               /\ moved' # t)
        /\ (moved' = t => sessions[t].intr = "none")]_vars

\* a sequence was interrupted by a release of the trigger after its first
\* movement tick
InterruptedAtNextTickWitness ==
    \E t \in Sessions :
        /\ sessions[t].pc = "after_seq"
        /\ sessions[t].intr = "release"
        /\ sessions[t].i = 2
        /\ ~trigger

\* C3: mouse_move is called only by a thread inside a playing sequence, in
\* a tick (of a point after point 0) which the thread entered by a check
\* that saw the trigger pressed, the stop event clear and the weapon change
\* event clear; a thread polling the trigger or waiting for its release
\* does not call it.
MoveOnlyInCheckedTick ==
    [][\A t \in Sessions :
        /\ (moved' = t) =>
              /\ sessions[t].pc = "seq_move"
              /\ sessions[t].i \in 1..(PatLen - 1)
              /\ sessions[t].weapon \in Weapons
        /\ (sessions'[t].pc = "seq_move" /\ sessions[t].pc # "seq_move") =>
              /\ sessions[t].pc = "seq_check"
              /\ trigger /\ ~stop_event /\ ~weapon_change_event
        /\ (sessions[t].pc = "seq_move" /\ Stepped(t)) =>
              /\ sessions'[t].pc = "seq_check"
              /\ moved' \in {0, t}]_vars

\* a thread has just called mouse_move in the last tick of a pattern
MoveOnlyInCheckedTickWitness ==
    \E t \in Sessions :
        /\ moved = t
        /\ sessions[t].pc = "seq_check"
        /\ sessions[t].i = PatLen

\* C4: a weapon change signalled to a session that has read the previous
\* weapon is never lost: the thread passes no tick check with the previous
\* weapon's pattern after set_weapon has returned.
WeaponChangeNeverLost ==
    \A t \in Sessions : sessions[t].sig # "lost"

\* C7: a start_compensation that finds the engine active returns False and
\* changes nothing: no thread is created and active, the events, the
\* running thread and the current weapon are as they were.
StartWhileActiveRejected ==
    [][\A c \in Callers :
        (callers[c].pc = "st_check" /\ active /\ callers'[c].pc # "st_check")
        => /\ returned' = [c |-> c, op |-> "start", res |-> "fail"]
           /\ UNCHANGED <<active, stop_event, weapon_change_event,
                          running_thread, sessions, current_weapon,
                          weapon_lock, owner, carryVars, configVars, overlayVars, timingVars, snapVars, hotkeyVars>>]_vars

\* a start was rejected while the session thread of the active engine runs
StartWhileActiveRejectedWitness ==
    /\ returned = [c |-> "ui", op |-> "start", res |-> "fail"]
    /\ active
    /\ IsAlive(running_thread)

\* C8: a stop_compensation on an active engine returns: it sets the stop
\* event and either has no live thread to wait for or joins it, and the
\* join ends when the thread ends or when the timeout elapses, whichever
\* the case one of the two is possible; when the call returns active is
\* False, and the result is False exactly when the thread is still alive.
StopReturnsInactive ==
    /\ [](\A c \in Callers :
            callers[c].pc = "sp_join" =>
                ENABLED (StopJoinDone(c) \/ StopJoinTimeout(c)))
    /\ [][\A c \in Callers :
            /\ (callers[c].pc = "sp_check" /\ active
                    /\ callers'[c].pc # "sp_check")
               => /\ stop_event'
                  /\ \/ callers'[c].pc = "sp_join" /\ IsAlive(callers'[c].jt)
                     \/ /\ ~active'
                        /\ returned' = [c |-> c, op |-> "stop", res |-> "ok"]
            /\ (callers[c].pc = "sp_join" /\ callers'[c].pc # "sp_join")
               => /\ ~active'
                  /\ returned'.c = c /\ returned'.op = "stop"
                  /\ returned'.res = "fail" <=> IsAlive(running_thread)]_vars

\* a stop has just returned False: the thread it joined is still alive
StopReturnsInactiveWitness ==
    /\ returned = [c |-> "ui", op |-> "stop", res |-> "fail"]
    /\ ~active
    /\ IsAlive(running_thread)

\* C9: a thread that has played a pattern to its end calls mouse_move no
\* more while the trigger stays pressed, no stop is requested and no weapon
\* change is signalled.
PlayedOncePerHold ==
    [][\A t \in Sessions : (moved' = t) => ~sessions[t].held]_vars

\* a thread waits for the release of the trigger after a completed pattern
PlayedOncePerHoldWitness ==
    \E t \in Sessions :
        /\ sessions[t].pc = "hold_wait"
        /\ sessions[t].held
        /\ trigger /\ ~stop_event /\ ~weapon_change_event

\* C10: weapon_lock is held only by a session thread inside
\* get_current_weapon or by a caller inside the with block of set_weapon:
\* not by a thread that sleeps or plays, joins, or notifies.
LockHeldForOneAccess ==
    /\ weapon_lock.kind = "session" =>
            sessions[weapon_lock.sid].pc = "gw_read"
    /\ weapon_lock.kind = "caller" =>
            callers[weapon_lock.cid].pc = "sw_body"
    /\ \A t \in Sessions :
            sessions[t].pc \notin {"gw_read", "none"} => weapon_lock # SLock(t)
    /\ \A c \in Callers :
            callers[c].pc # "sw_body" => weapon_lock # CLock(c)

\* set_weapon holds the lock while a session thread is inside a tick
LockHeldForOneAccessWitness ==
    /\ weapon_lock = CLock("ui")
    /\ \E t \in Sessions : sessions[t].pc = "seq_move"

(***************************************************************************)
(* Properties of the engine's threads (SpecThreads) and of the weapon      *)
(* detection service (Spec).                                               *)
(***************************************************************************)
\* C5: at most one thread executes _compensation_loop.
SingleLoopThread ==
    Cardinality({t \in Sessions : sessions[t].pc # "none"}) <= 1

NullTargetClearsSession ==
    [][\A c \in SnapshotCallers :
        (/\ callers[c].pc = "pp_weapon"
         /\ callers'[c].pc # "pp_weapon"
         /\ TargetWeapon(callers[c].snap) = NoWeapon
         /\ detection_state.current_weapon # NoWeapon)
        => (/\ detection_state'.current_weapon = NoWeapon
            /\ \/ current_weapon' = NoWeapon
               \/ (callers'[c].pc = "sw_acq" /\ callers'[c].w = NoWeapon))]_vars

\* C14: the process step starts the session only when the snapshot says
\* compensation should be on, a weapon is assigned to the session and the
\* session is not already running; it stops the session only if it
\* auto-started it before.
AutoStartOnlyWithWeapon ==
    [][\A c \in SnapshotCallers :
        /\ (/\ callers[c].pc = "st_begin"
            /\ AllowManual(c)
            /\ callers'[c].pc # "st_begin")
           => (/\ callers[c].snap.should
               /\ current_weapon \in Weapons
               /\ ~active)
        /\ (/\ callers[c].pc = "sp_check"
            /\ StackHas(c, "pp_stopped")
            /\ callers'[c].pc # "sp_check")
           => detection_state.rcs_was_auto_enabled]_vars

\* C15: the process step never waits for the session thread: no worker
\* that delivers a snapshot is ever inside the join of stop_compensation.
ProcessNeverJoins ==
    \A c \in SnapshotCallers :
        ~(callers[c].pc = "sp_join" /\ StackHas(c, "pp_stopped"))

\* C20: when the session thread has ended because it found no weapon (or
\* an empty pattern) and no request is in progress, the engine is idle:
\* active is false, so that the next start_compensation is accepted.
EndedSessionIsIdle ==
    (/\ \A c \in Callers : callers[c].pc = "idle"
     /\ running_thread # 0
     /\ ~IsAlive(running_thread))
    => ~active

(***************************************************************************)
(* Properties of concurrent snapshot delivery (SpecWorkers).               *)
(***************************************************************************)
\* C11: the process step is non-reentrant: at most one worker is inside
\* process_player_state (weapon change, RCS control, ammo monitoring and
\* the calls they make) at any time, so that one snapshot is processed
\* fully before the next begins.
ProcessNonReentrant ==
    \A c \in SnapshotCallers, d \in SnapshotCallers :
        c # d => (callers[c].pc = "idle" \/ callers[d].pc = "idle")

(***************************************************************************)
(* Properties of the ammunition monitoring (SpecAmmo).                     *)
(***************************************************************************)
\* C12: for an eligible weapon the low-ammo notification fires for a
\* snapshot exactly when the magazine content crossed from above the
\* threshold to at or below it while non-empty: once per crossing and on
\* no other snapshot.
LowAmmoOncePerCrossing ==
    (ammoPc = "idle" /\ prevClip # NoAmmo /\ is_rcs_eligible)
    => (lowAmmoWarned <=> (/\ prevClip > low_ammo_threshold
                           /\ ammo_clip <= low_ammo_threshold
                           /\ ammo_clip > 0))

(***************************************************************************)
(* Properties of the timing service (SpecSleep).                           *)
(***************************************************************************)
\* C16: with either strategy, when sleep_until(target, start) has returned
\* the clock reads at least start + target.
SleepReturnsAfterTarget ==
    sleepPc = "returned" => clock >= start_time_ms + target_time_ms

\* a high-precision call that went through the long OS sleep and ended
\* within a millisecond of its target
SleepReturnsAfterTargetWitness ==
    /\ sleepPc = "returned"
    /\ strategy = "high_precision"
    /\ target_time_ms > 20 * TimeScale
    /\ start_time_ms > 0
    /\ remaining <= 0
    /\ remaining > -TimeScale
    /\ clock = start_time_ms + target_time_ms - remaining

(***************************************************************************)
(* Properties of the calculated pattern under recalculation (SpecCalc).    *)
(***************************************************************************)
\* C19: whatever the moment of the read, the list a reader gets from
\* calculated_pattern is one that subdivide has returned, the previous
\* complete pattern or the new one, never the list of a call of subdivide
\* that is still appending points or distributing gaps.
ReaderSeesCompletePattern ==
    readAt # "never" => pattern \in completed

\* the pattern was read while a recalculation was distributing gaps over
\* a list that differs from the pattern read
ReaderSeesCompletePatternWitness ==
    /\ readAt = "gap"
    /\ subPc = "gap"
    /\ recalcs >= 1
    /\ subResult # <<>>
    /\ pattern # <<>>
    /\ pattern # subResult

\* C22: the empty-magazine handler is called for a processed snapshot
\* exactly when its ammo_clip is 0 and the last_ammo_count recorded before
\* it was greater than 0; in particular not again for the following
\* snapshots of a magazine that stays empty.
EmptyMagazineOnce ==
    [][(ammoPc = "monitor" /\ ammoPc' = "idle") =>
        (emptyHandled' <=> (ammo_clip = 0 /\ last_ammo_count > 0))]_vars

\* a magazine seen non-empty was then seen empty, and the handler called
EmptyMagazineOnceWitness ==
    /\ ammoPc = "idle"
    /\ prevClip > 0
    /\ ammo_clip = 0
    /\ last_ammo_count = 0
    /\ emptyHandled

(***************************************************************************)
(* Properties of the movement of a sequence (SpecCarry).                   *)
(***************************************************************************)
\* C30: after every tick of a sequence and on each axis, the whole pixels
\* emitted so far differ from the intended movement so far by less than
\* one pixel, and the difference is the fraction carried to the next tick.
FractionCarried ==
    /\ Abs(intended_x - accumulated_x * PixelScale) < PixelScale
    /\ Abs(intended_y - accumulated_y * PixelScale) < PixelScale
    /\ sum_x = intended_x - accumulated_x * PixelScale
    /\ sum_y = intended_y - accumulated_y * PixelScale

\* after the last tick of a sequence: pixels were emitted in both
\* directions and a negative fraction is being carried on one axis, a
\* positive one on the other
FractionCarriedWitness ==
    /\ tick = MaxTicks
    /\ accumulated_x < 0
    /\ accumulated_y > 0
    /\ sum_x < 0
    /\ sum_y > 0

(***************************************************************************)
(* Properties of configuration loading (SpecConfig).                       *)
(***************************************************************************)
InRange(e) ==
    /\ "length" \in e.present /\ e.length >= 1
    /\ "multiple" \in e.present /\ e.multiple >= 1
    /\ "sleep_divider" \in e.present /\ e.sleep_divider > 0
    /\ e.jitter_movement >= 0 /\ e.jitter_movement <= 100

\* C23: a load of an existing file creates a profile only for a weapon that
\* has an entry with length >= 1, multiple >= 1, sleep_divider > 0 and
\* jitter_movement in [0, 100], and every entry in range whose pattern file
\* loads gets its weapon a profile.
InvalidEntryRejected ==
    [][(loads' = loads + 1 /\ config_file.exists) =>
          LET ws == config_file.weapons
          IN  /\ \A n \in ConfigNames :
                     weapon_profiles'[n] # NoProfile =>
                         \E i \in DOMAIN ws : ws[i].name = n /\ InRange(ws[i])
              /\ \A i \in DOMAIN ws :
                     (InRange(ws[i]) /\ ws[i].csv) =>
                         weapon_profiles'[ws[i].name] # NoProfile]_vars

\* C24: a load that finds no loadable entry for a weapon that had a profile
\* leaves that profile in place.
ReloadKeepsPreviousProfile ==
    [][loads' = loads + 1 =>
          LET ws == config_file.weapons
          IN  \A n \in ConfigNames :
                  (/\ weapon_profiles[n] # NoProfile
                   /\ ~ \E i \in DOMAIN ws :
                          /\ ws[i].name = n
                          /\ validate_weapon_data(ws[i])
                          /\ ws[i].csv)
                      => weapon_profiles'[n] = weapon_profiles[n]]_vars

(***************************************************************************)
(* Status events (SpecSession).                                            *)
(***************************************************************************)
\* C27: stop_compensation called while the engine is not active returns
\* True at once: the stop flag is not set, no thread is joined, no status
\* event is emitted and the engine state is left as it was.
StopWhileIdleIsNoOp ==
    [][\A c \in Callers :
          (callers[c].pc = "sp_check" /\ ~active /\ callers'[c] # callers[c]) =>
              /\ returned' = [c |-> c, op |-> "stop", res |-> "ok"]
              /\ status_event' = NoStatus
              /\ callers'[c].pc # "sp_join"
              /\ callers'[c].jt = 0
              /\ UNCHANGED <<active, stop_event, running_thread, sessions, overlayVars, timingVars, snapVars, hotkeyVars>>]_vars

\* a stop has just returned True without a status event, the stop flag clear
StopWhileIdleWitness ==
    /\ returned = [c |-> "ui", op |-> "stop", res |-> "ok"]
    /\ status_event = NoStatus
    /\ ~active
    /\ ~stop_event

\* caller c of the callers function cs is inside set_weapon, before its
\* notification
InSetWeapon(cs, c) ==
    \/ cs[c].pc = "sw_after_stop"
    \/ \E k \in 1..Len(cs[c].stk) : cs[c].stk[k] = "sw_after_stop"

\* C25: every step that changes the active flag or the current weapon
\* emits a status event with the new values, or is made inside a set_weapon
\* call that emits it before it returns.
StatusEventOnTransition ==
    [][LET new == [active |-> active', current_weapon |-> current_weapon',
                   manual_activation_allowed |-> ~enabled']
       IN  /\ (active' # active \/ current_weapon' # current_weapon) =>
                  \/ status_event' = new
                  \/ \E c \in Callers :
                         callers'[c] # callers[c] /\ InSetWeapon(callers', c)
           /\ \A c \in Callers :
                  (callers[c].pc = "sw_after_stop" /\ callers'[c] # callers[c])
                      => status_event' = new]_vars

(***************************************************************************)
(* The overlay (SpecOverlay).                                              *)
(***************************************************************************)
\* C26: when the session thread finds the trigger released and goes on
\* waiting for it, the position last reported to the overlay is (0, 0):
\* every sequence that ended before has been followed by a reset.
OverlayResetBeforeWait ==
    [][\A t \in Sessions :
          (sessions[t].pc = "key_check" /\ ~trigger /\ sessions'[t].pc = "loop_top")
              => overlay_position = "origin"]_vars

(***************************************************************************)
(* Properties of the timing service (SpecTiming).                          *)
(***************************************************************************)
\* C21: when the high-resolution timer cannot be set up, the constructor
\* returns a service with the standard strategy and no timer; every clock
\* read is then one of the standard clock and every sleep a standard sleep,
\* and a sleep_until call in progress returns.
FallbackCompletes ==
    /\ [](~hires_available /\ sleepPc # "new" =>
            /\ strategy = "standard"
            /\ timer = "None"
            /\ precision_sleep = "None"
            /\ time_source \in {"none", "time.time"}
            /\ sleep_source \in {"none", "time.sleep"})
    /\ (~hires_available /\ sleepPc \in {"fb_read", "fb_sleep"})
           ~> (sleepPc = "returned")

\* without the timer, get_current_time, sleep and sleep_until have all
\* returned, the last sleep_until after a standard sleep
FallbackCompletesWitness ==
    /\ ~hires_available
    /\ completed_ops = {"now", "sleep", "sleep_until"}
    /\ sleepPc = "returned"
    /\ time_source = "time.time"
    /\ sleep_source = "time.sleep"
    /\ remaining > 0

(***************************************************************************)
(* set_weapon with an unknown name (SpecSession).                          *)
(***************************************************************************)
\* C37: a set_weapon call whose name is not empty and has no profile
\* returns False; the current weapon, the weapon change event and the
\* active flag are unchanged and no status event is emitted.
UnknownWeaponRejected ==
    [][\A c \in Callers :
          (/\ callers[c].pc = "sw_body"
           /\ callers[c].w # NoWeapon
           /\ callers[c].w \notin Weapons
           /\ callers'[c] # callers[c]) =>
              /\ returned' = [c |-> c, op |-> "set_weapon", res |-> "fail"]
              /\ status_event' = NoStatus
              /\ UNCHANGED <<current_weapon, weapon_change_event, active,
                             stop_event, running_thread, sessions, snapVars, hotkeyVars>>]_vars

\* set_weapon has just returned False while the engine is active with a
\* weapon selected
UnknownWeaponRejectedWitness ==
    /\ returned = [c |-> "ui", op |-> "set_weapon", res |-> "fail"]
    /\ status_event = NoStatus
    /\ active
    /\ current_weapon \in Weapons
    /\ weapon_lock = Free

(***************************************************************************)
(* Point 0 and the calls of mouse_move (SpecCarry).                        *)
(***************************************************************************)
\* C31: point 0 of the pattern moves nothing: after its tick no mouse_move
\* call has been made and the running sums are zero, and at every later
\* tick the pixels emitted plus the carried fraction are the displacement
\* of the points after point 0, the displacement of point 0 left out.
OriginPointNotMoved ==
    /\ point_index = 0 =>
          /\ mouse_moves = 0
          /\ sum_x = 0 /\ sum_y = 0
          /\ accumulated_x = 0 /\ accumulated_y = 0
    /\ point_index >= 0 =>
          /\ accumulated_x * PixelScale + sum_x
                = pattern_x - origin_x
          /\ accumulated_y * PixelScale + sum_y
                = pattern_y - origin_y

\* a sequence is completed: point 0 had a displacement on both axes and
\* pixels were emitted on both axes for the points after it
OriginPointNotMovedWitness ==
    /\ tick = MaxTicks
    /\ point_index = MaxTicks
    /\ origin_x > PixelScale \div 2
    /\ origin_y < 0
    /\ accumulated_x # 0
    /\ accumulated_y # 0

\* C38: a movement tick calls mouse_move once when the integer delta taken
\* out of the running sums is non-zero on an axis, and not at all when it
\* is zero on both; the tick of point 0 calls it not at all.
MouseMoveOncePerTick ==
    [][point_index' = point_index + 1 =>
          LET dx_int == (sum_x + (intended_x' - intended_x) - sum_x') \div PixelScale
              dy_int == (sum_y + (intended_y' - intended_y) - sum_y') \div PixelScale
          IN  /\ mouse_moves' \in {0, 1}
              /\ mouse_moves' = 1 <=>
                     (point_index >= 0 /\ (dx_int # 0 \/ dy_int # 0))]_vars

\* the first movement tick had a non-zero delta on both axes and has made
\* one call
MouseMoveOncePerTickWitness ==
    /\ mouse_moves = 1
    /\ tick = 1
    /\ accumulated_x # 0
    /\ accumulated_y # 0

(***************************************************************************)
(* sleep_until and the clock (SpecSleep).                                  *)
(***************************************************************************)
\* C32: every pass of sleep_until takes the remaining time from the clock
\* it has just read; a read that finds the clock at or past start + target
\* ends the call with no sleep, and a sleep never asks for more than the
\* time that remained at the read before it.
RemainingFromClock ==
    [][/\ (sleepPc \in {"hp_read", "fb_read"} /\ sleepPc' # sleepPc) =>
              /\ remaining' = start_time_ms + target_time_ms - clock
              /\ clock' = clock
              /\ (clock >= start_time_ms + target_time_ms) => sleepPc' = "returned"
              /\ (clock < start_time_ms + target_time_ms) =>
                     sleepPc' \in {"hp_sleep", "fb_sleep"}
       /\ (sleepPc \in {"hp_sleep", "fb_sleep"} /\ sleepPc' # sleepPc) =>
              /\ remaining > 0
              /\ clock' - clock <= remaining]_vars

\* a later call of a sequence was entered after its target had passed and
\* has returned on its first read
RemainingFromClockWitness ==
    /\ sleepPc = "returned"
    /\ strategy = "high_precision"
    /\ target_time_ms >= 2 * TimeScale
    /\ remaining < 0

(***************************************************************************)
(* The target weapon (SpecSnap).                                           *)
(***************************************************************************)
\* C35: the target weapon derived from a snapshot is not null only if the
\* health received is above 0, there is an active weapon, its category is
\* primary, its state is "active" and its clip holds at least one round.
TargetOnlyIfEligible ==
    (snapPc = "derived" /\ target_weapon # "none") =>
        /\ gsi_data.health > 0
        /\ gsi_data.has_weapon
        /\ WeaponCategory(gsi_data.name) = "primary"
        /\ gsi_data.state = "active"
        /\ gsi_data.ammo_clip >= 1

\* a snapshot of a living player holding a loaded primary weapon with a
\* pattern gave that pattern as the target
TargetOnlyIfEligibleWitness ==
    /\ snapPc = "derived"
    /\ target_weapon = "cz75"
    /\ gsi_data.health > 0
    /\ gsi_data.ammo_clip = 7

(***************************************************************************)
(* Manual start while weapon detection is enabled.                         *)
(***************************************************************************)
\* C34: while detection is enabled, a start_compensation call without
\* allow_manual_when_auto_enabled returns False and leaves the engine as
\* it was, and a step that makes the engine active is the start made by
\* the detection service.
ManualStartBlocked ==
    [][/\ \A c \in Callers :
              (/\ callers[c].pc = "st_check"
               /\ ~AllowManual(c)
               /\ enabled
               /\ callers'[c] # callers[c]) =>
                  /\ returned' = [c |-> c, op |-> "start", res |-> "fail"]
                  /\ status_event' = NoStatus
                  /\ UNCHANGED <<active, running_thread, stop_event, sessions>>
       /\ (enabled /\ ~active /\ active') => owner' = "auto"]_vars

\* with detection enabled and the engine idle with a weapon selected, a
\* manual start has just returned False
ManualStartBlockedWitness ==
    /\ returned = [c |-> "ui", op |-> "start", res |-> "fail"]
    /\ enabled
    /\ ~active
    /\ current_weapon \in Weapons

(***************************************************************************)
(* Weapon detection after disable() has returned.                          *)
(***************************************************************************)
\* a caller is inside disable()
InDisable ==
    \E c \in ManualCallers :
        callers[c].pc = "dis_reset" \/ StackHas(c, "dis_reset")

\* C33: from the return of disable() to the next enable(), no step changes
\* the detection state and no snapshot, one in flight included, starts or
\* stops the session; the detection state is the reset one.
InertAfterDisable ==
    [][(~enabled /\ ~InDisable /\ ~enabled' /\ ~InDisable') =>
          /\ detection_state' = detection_state
          /\ \A c \in SnapshotCallers :
                 callers'[c] # callers[c] =>
                     UNCHANGED <<active, running_thread, stop_event, hotkeyVars>>]_vars

(***************************************************************************)
(* Length of calculated_pattern while the configuration is saved.          *)
(***************************************************************************)
\* C36: once the profile is constructed, and the raw pattern has at least
\* length points, calculated_pattern has length * multiple points for the
\* current length and multiple of the profile, in every state the session
\* thread can read, a configuration save in progress included.
CalculatedPatternLength ==
    (completed # {} /\ subLength <= Len(subPattern)) =>
        Len(calculated_pattern) = subLength * subMultiple

(***************************************************************************)
(* Termination of reload_configuration.                                    *)
(***************************************************************************)
\* the calling thread is inside reload_configuration
InReload ==
    \/ hkPc \in {"rl_acquire", "rl_update", "rl_done"}
    \/ hkRet \in {"rl_update", "rl_done"}

\* C39: every call of reload_configuration returns.
ReloadTerminates == InReload ~> (hk_result = "reloaded")

\* the calling thread waits in stop_monitoring for the lock it took itself
\* in reload_configuration
ReloadSelfDeadlock ==
    /\ hkPc = "stop_acquire"
    /\ hkRet = "rl_update"
    /\ monitoring_lock

====
